---- MODULE Spec2Model ----
(***************************************************************************)
(* A model of the Morgoth interpreter (joeabbey/morgoth): the evaluator's  *)
(* environments, control signals and calls (internal/eval), and the        *)
(* lexer's automatic semicolon insertion (internal/lexer).                 *)
(*                                                                         *)
(* The evaluator is modelled big-step: every Go method of Evaluator is an  *)
(* operator of the same name taking the AST node and the evaluator state   *)
(* and returning the new state, the value and the error.  Pointers are     *)
(* indices into heaps: envs (Env objects) and binds (Binding objects).     *)
(***************************************************************************)
EXTENDS Integers, Sequences, FiniteSets, TLC

VARIABLES
    \* ---- Evaluator (eval.go:45-49) and the run of Eval over a program
    env,        \* ev.env: index of the current Env in envs
    envs,       \* heap of Env objects: [bindings, parent]
    binds,      \* heap of Binding objects: [Value, IsConst, Forgiven]
    decrees,    \* ev.decrees: DecreeConfig
    output,     \* lines written to ev.output by speak
    raised,     \* history: every signal constructed during evaluation
    calls,      \* history: every completed call of a user function
    matches,    \* history: every completed match expression
    heap,       \* heap of the Values that hold an array or a map: [Array, Map]
    weekend,    \* whether time.Now() is a Saturday or a Sunday
    suite,      \* which item vocabulary the program is drawn from
    program,    \* the items of program.Items evaluated so far
    result,     \* Eval's local `result`, then its returned value
    err,        \* the error Eval returned
    status,     \* "running" | "returned"
    \* ---- Lexer (decree.go:523-536) and the run of Tokenize over an input
    input, pos, readPos, ch, line, col, lastToken, pendingSemicolon,
    tokens,     \* the tokens NextToken has returned so far
    lexlog,     \* history: what NextToken saw on each call
    \* ---- skipBlockComment (decree.go:610-637) run one iteration at a time
    commentDepth, \* its local `depth`
    skipping,   \* whether control is inside skipBlockComment
    \* ---- an OrderedMap (value.go) under a sequence of Set calls
    omap,       \* the OrderedMap: [keys, values]
    setlog,     \* history: the <<key, value>> of every Set call, in order
    \* ---- Parser (decree.go:1428-1435) and the run of Parse over the tokens
    cursor,     \* index in tokens of p.curToken; 0 before New
    errors,     \* p.errors
    progItems,  \* prog.Items: the kind of node of each item
    iterations, \* history: iterations of the loop of Parse so far
    parsing,    \* "idle" | "parsing" | "returned" | "hung"
    \* ---- Parser (decree.go:1428-1435) with its buffer, under nextToken and peekAhead
    parser,     \* the token fields of the Parser: [curToken, peekToken, buffered]
    placed,     \* history: every token p.curToken has held since New returned
    peeked      \* the last call of peekAhead: [n, tok]

evalVars == <<env, envs, binds, decrees, output, raised, calls, matches, heap, weekend, suite, program, result, err, status>>
lexVars  == <<input, pos, readPos, ch, line, col, lastToken, pendingSemicolon, tokens, lexlog>>
commentVars == <<commentDepth, skipping>>
mapVars  == <<omap, setlog>>
parseVars == <<cursor, errors, progItems, iterations, parsing>>
bufVars  == <<parser, placed, peeked>>
restVars == <<commentVars, mapVars, parseVars, bufVars>>
vars     == <<evalVars, lexVars, restVars>>

(***************************************************************************)
(* Values (unnamed/part_000)                                               *)
(***************************************************************************)
NoFn == <<>>
NoInner == <<>>

IntVal(n)  == [Kind |-> "ValInt",  Int |-> n, Bool |-> FALSE, Str |-> "", Fn |-> NoFn, Inner |-> NoInner]
BoolVal(b) == [Kind |-> "ValBool", Int |-> 0, Bool |-> b,     Str |-> "", Fn |-> NoFn, Inner |-> NoInner]
StrVal(str) == [Kind |-> "ValStr", Int |-> 0, Bool |-> FALSE, Str |-> str, Fn |-> NoFn, Inner |-> NoInner]
NilVal     == [Kind |-> "ValNil",  Int |-> 0, Bool |-> FALSE, Str |-> "", Fn |-> NoFn, Inner |-> NoInner]
OkVal(v)   == [Kind |-> "ValOk",   Int |-> 0, Bool |-> FALSE, Str |-> "", Fn |-> NoFn, Inner |-> <<v>>]
ErrVal(v)  == [Kind |-> "ValErr",  Int |-> 0, Bool |-> FALSE, Str |-> "", Fn |-> NoFn, Inner |-> <<v>>]
PtrVal(a)  == [Kind |-> "ValPtr",  Int |-> a, Bool |-> FALSE, Str |-> "", Fn |-> NoFn, Inner |-> NoInner]
FnVal(fn)  == [Kind |-> "ValFn",   Int |-> 0, Bool |-> FALSE, Str |-> "", Fn |-> <<fn>>, Inner |-> NoInner]
\* An array or a map is the *Value that holds it: Int is its address in the heap,
\* where its Array and Map fields are.
ArrayVal(a) == [Kind |-> "ValArray", Int |-> a, Bool |-> FALSE, Str |-> "", Fn |-> NoFn, Inner |-> NoInner]
MapVal(a)   == [Kind |-> "ValMap",   Int |-> a, Bool |-> FALSE, Str |-> "", Fn |-> NoFn, Inner |-> NoInner]

\* FnValue: Body is a pointer to a BlockExpr (0 = nil, an extern stub), Env a pointer to an Env.
FnValue(name, params, body, e) == [Name |-> name, Params |-> params, Body |-> body, Env |-> e]

IsTruthy(v) ==
    CASE v.Kind = "ValBool" -> v.Bool
      [] v.Kind = "ValInt"  -> v.Int # 0
      [] v.Kind = "ValStr"  -> v.Str # ""
      [] v.Kind = "ValPtr"  -> v.Int # 0
      [] v.Kind = "ValNil"  -> FALSE
      [] OTHER -> TRUE

RECURSIVE String(_)
String(v) ==
    CASE v.Kind = "ValInt"  -> ToString(v.Int)
      [] v.Kind = "ValBool" -> (IF v.Bool THEN "true" ELSE "false")
      [] v.Kind = "ValStr"  -> v.Str
      [] v.Kind = "ValNil"  -> "nil"
      [] v.Kind = "ValFn"   -> (IF v.Fn[1].Name # "" THEN "<fn " \o v.Fn[1].Name \o ">" ELSE "<fn>")
      [] v.Kind = "ValOk"   -> "ok(" \o String(v.Inner[1]) \o ")"
      [] v.Kind = "ValErr"  -> "err(" \o String(v.Inner[1]) \o ")"
      [] v.Kind = "ValPtr"  -> "ptr(" \o ToString(v.Int) \o ")"
      [] OTHER -> "<unknown>"

(***************************************************************************)
(* OrderedMap (value.go)                                                   *)
(***************************************************************************)
\* &OrderedMap{values: make(map[string]*Value)}
NewOrderedMap == [keys |-> <<>>, values |-> [k \in {} |-> NilVal]]

\* A variant of OrderedMapSet: the key is appended on every call.
OrderedMapSetAppending(m, key, val) ==
    [keys |-> Append(m.keys, key),
     values |-> [k \in DOMAIN m.values \cup {key} |-> IF k = key THEN val ELSE m.values[k]]]

\* func (m *OrderedMap) Set(key string, val *Value)
OrderedMapSet(m, key, val) ==
    [keys |-> IF key \notin DOMAIN m.values THEN Append(m.keys, key) ELSE m.keys,
     values |-> [k \in DOMAIN m.values \cup {key} |-> IF k = key THEN val ELSE m.values[k]]]

\* func (m *OrderedMap) Get(key string) (*Value, bool)
OrderedMapGet(m, key) ==
    IF key \in DOMAIN m.values THEN [v |-> m.values[key], ok |-> TRUE] ELSE [v |-> NilVal, ok |-> FALSE]

\* func (m *OrderedMap) Keys() []string
OrderedMapKeys(m) == m.keys

\* func (m *OrderedMap) Len() int
OrderedMapLen(m) == Len(m.keys)

(***************************************************************************)
(* Control signals (eval.go:14-42) and results of the recursive walker     *)
(***************************************************************************)
NoErr                == [kind |-> "none",      msg |-> "",  value |-> NilVal]
DoomError(m)         == [kind |-> "doom",      msg |-> m,   value |-> NilVal]
ReturnSignal(v)      == [kind |-> "return",    msg |-> "",  value |-> v]
PropagateError(v)    == [kind |-> "propagate", msg |-> "",  value |-> v]
GuardReturnSignal(v) == [kind |-> "guard",     msg |-> "",  value |-> v]

\* (value, error) as returned by the eval* methods, with the state they leave.
Ret(s, v)  == [s |-> s, val |-> v, err |-> NoErr]
\* return nil, &Signal{...}: the construction of the signal is recorded in s.raised.
Raise(s, sig) ==
    [s   |-> [s EXCEPT !.raised = Append(@, [sig |-> sig, depth |-> s.depth, outlen |-> Len(s.output)])],
     val |-> NilVal, err |-> sig]
\* return nil, err: an error received from a sub-evaluation is handed on.
Fail(s, e) == [s |-> s, val |-> NilVal, err |-> e]

(***************************************************************************)
(* Environments (env.go)                                                   *)
(***************************************************************************)
NoBindings == [n \in {} |-> 0]

NewEnv(s, parent) ==
    [s EXCEPT !.envs = Append(@, [bindings |-> NoBindings, parent |-> parent])]

\* The Env NewEnv(s, _) has just allocated.
LastEnv(s) == Len(s.envs)

Binding(val, isConst) == [Value |-> val, IsConst |-> isConst, Forgiven |-> FALSE]

\* A variant of Define: a definition replaces the nearest binding of the name, wherever it is.
RECURSIVE DefineInNearest(_, _, _, _, _)
DefineInNearest(s, e, name, val, isConst) ==
    IF name \in DOMAIN s.envs[e].bindings \/ s.envs[e].parent = 0
    THEN [s EXCEPT !.binds = Append(@, Binding(val, isConst)),
                   !.envs[e].bindings = (name :> (Len(s.binds) + 1)) @@ @]
    ELSE DefineInNearest(s, s.envs[e].parent, name, val, isConst)

\* A variant of Define: a name already bound in the scope keeps its Binding,
\* with its flags, and gets the value.
DefineKeeping(s, e, name, val, isConst) ==
    IF name \in DOMAIN s.envs[e].bindings
    THEN [s EXCEPT !.binds[s.envs[e].bindings[name]].Value = val]
    ELSE [s EXCEPT !.binds = Append(@, Binding(val, isConst)),
                   !.envs[e].bindings = (name :> (Len(s.binds) + 1)) @@ @]

Define(s, e, name, val, isConst) ==
    [s EXCEPT !.binds = Append(@, Binding(val, isConst)),
              !.envs[e].bindings = (name :> (Len(s.binds) + 1)) @@ @]

RECURSIVE Get(_, _, _)
Get(s, e, name) ==
    IF name \in DOMAIN s.envs[e].bindings
    THEN [val |-> s.binds[s.envs[e].bindings[name]].Value, error |-> ""]
    ELSE IF s.envs[e].parent # 0 THEN Get(s, s.envs[e].parent, name)
    ELSE [val |-> NilVal, error |-> "undefined variable: " \o name]

\* A variant of Set: assignment without the const check.
RECURSIVE SetIgnoringConst(_, _, _, _)
SetIgnoringConst(s, e, name, val) ==
    IF name \in DOMAIN s.envs[e].bindings
    THEN [s |-> [s EXCEPT !.binds[s.envs[e].bindings[name]].Value = val], error |-> ""]
    ELSE IF s.envs[e].parent # 0 THEN SetIgnoringConst(s, s.envs[e].parent, name, val)
    ELSE [s |-> s, error |-> "undefined variable: " \o name]

RECURSIVE Set(_, _, _, _)
Set(s, e, name, val) ==
    IF name \in DOMAIN s.envs[e].bindings
    THEN LET b == s.envs[e].bindings[name] IN
         IF s.binds[b].IsConst /\ ~s.binds[b].Forgiven
         THEN [s |-> s, error |-> "cannot reassign const: " \o name]
         ELSE [s |-> [s EXCEPT !.binds[b].Value = val], error |-> ""]
    ELSE IF s.envs[e].parent # 0 THEN Set(s, s.envs[e].parent, name, val)
    ELSE [s |-> s, error |-> "undefined variable: " \o name]

\* A variant of Forgive: sorry forgives the nearest binding along the parent chain.
RECURSIVE ForgiveAscending(_, _, _)
ForgiveAscending(s, e, name) ==
    IF name \in DOMAIN s.envs[e].bindings
    THEN [s |-> [s EXCEPT !.binds[s.envs[e].bindings[name]].Forgiven = TRUE], error |-> ""]
    ELSE IF s.envs[e].parent # 0 THEN ForgiveAscending(s, s.envs[e].parent, name)
    ELSE [s |-> s, error |-> "sorry: " \o name \o " not found in current scope"]

Forgive(s, e, name) ==
    IF name \in DOMAIN s.envs[e].bindings
    THEN [s |-> [s EXCEPT !.binds[s.envs[e].bindings[name]].Forgiven = TRUE], error |-> ""]
    ELSE [s |-> s, error |-> "sorry: " \o name \o " not found in current scope"]

(***************************************************************************)
(* Decrees (decree.go:1-38)                                                *)
(***************************************************************************)
NewDecreeConfig ==
    [IndexingBase |-> "weekday", DetHashing |-> FALSE, AmbitiousMode |-> FALSE,
     SoftCasts |-> FALSE, SequentialMood |-> FALSE, NoForgiveness |-> FALSE]

Apply(d, decree) ==
    CASE decree = "zero_indexed"          -> [d EXCEPT !.IndexingBase = "zero"]
      [] decree = "one_indexed"           -> [d EXCEPT !.IndexingBase = "one"]
      [] decree = "deterministic_hashing" -> [d EXCEPT !.DetHashing = TRUE]
      [] decree = "soft_casts"            -> [d EXCEPT !.SoftCasts = TRUE]
      [] decree = "ambitious_mode"        -> [d EXCEPT !.AmbitiousMode = TRUE]
      [] decree = "sequential_mood"       -> [d EXCEPT !.SequentialMood = TRUE]
      [] decree = "no_forgiveness"        -> [d EXCEPT !.NoForgiveness = TRUE]
      [] OTHER -> d

(***************************************************************************)
(* AST (decree.go:965-1402): a node is a record with its Go type in `type`. *)
(* An optional child (a nil pointer in Go) is <<>> or <<node>>.  The body  *)
(* of a function is a pointer into Bodies.                                 *)
(***************************************************************************)
IntLitExpr(n)        == [type |-> "IntLitExpr", Value |-> n]
StringLitExpr(str)   == [type |-> "StringLitExpr", Value |-> str]
BoolLitExpr(b)       == [type |-> "BoolLitExpr", Value |-> b]
NilLitExpr           == [type |-> "NilLitExpr"]
IdentExpr(name)      == [type |-> "IdentExpr", Name |-> name]
BinaryExpr(l, op, r) == [type |-> "BinaryExpr", Left |-> l, Op |-> op, Right |-> r]
UnaryExpr(op, r)     == [type |-> "UnaryExpr", Op |-> op, Right |-> r]
AssignExpr(name, v)  == [type |-> "AssignExpr", Name |-> name, Value |-> v]
CallExpr(fn, args)   == [type |-> "CallExpr", Function |-> fn, Args |-> args]
PropagateExpr(e)     == [type |-> "PropagateExpr", Inner |-> e]
IfExpr(c, then, els) == [type |-> "IfExpr", Condition |-> c, Then |-> then, Else |-> els]
MatchArm(p, body)    == [Pattern |-> p, Body |-> body]
MatchExpr(subj, arms) == [type |-> "MatchExpr", Subject |-> subj, Arms |-> arms]
GuardExpr(c, els)    == [type |-> "GuardExpr", Condition |-> c, ElseBody |-> els]
BlockExpr(stmts, final) == [type |-> "BlockExpr", Stmts |-> stmts, FinalExpr |-> final]
OkExpr(e)            == [type |-> "OkExpr", Inner |-> e]
ErrExpr(e)           == [type |-> "ErrExpr", Inner |-> e]
SpeakExpr(e)         == [type |-> "SpeakExpr", Value |-> e]
SorryExpr(name)      == [type |-> "SorryExpr", Name |-> name]
DoomExpr(e)          == [type |-> "DoomExpr", Message |-> e]
ChantExpr(e)         == [type |-> "ChantExpr", Name |-> e]
SpawnExpr(body)      == [type |-> "SpawnExpr", Body |-> body]
AwaitAllExpr         == [type |-> "AwaitAllExpr"]
\* A function literal `fn(params) { ... }`: eval_test.go:876-1044 and parser_test.go:731
\* build it; evalExpr (eval.go:195-264) has no case for it.
FnLitExpr(params, body) == [type |-> "FnLitExpr", Params |-> params, Body |-> body]
ArrayLitExpr(elems)  == [type |-> "ArrayLitExpr", Elements |-> elems]
MapPair(k, v)        == [Key |-> k, Value |-> v]
MapLitExpr(pairs)    == [type |-> "MapLitExpr", Pairs |-> pairs]
IndexExpr(l, i)      == [type |-> "IndexExpr", Left |-> l, Index |-> i]
DotExpr(l, field)    == [type |-> "DotExpr", Left |-> l, Field |-> field]
\* parseAssignExpr (decree.go:1849-1878) builds these from an IndexExpr and a DotExpr.
IndexAssignExpr(l, i, v) == [type |-> "IndexAssignExpr", Left |-> l, Index |-> i, Value |-> v]
DotAssignExpr(l, field, v) == [type |-> "DotAssignExpr", Left |-> l, Field |-> field, Value |-> v]

WildcardPattern      == [type |-> "WildcardPattern"]
LiteralPattern(e)    == [type |-> "LiteralPattern", Value |-> e]
IdentPattern(name)   == [type |-> "IdentPattern", Name |-> name]
TypedPattern(name, t) == [type |-> "TypedPattern", Name |-> name, TypeName |-> t]
GuardedPattern(inner, g) == [type |-> "GuardedPattern", Inner |-> inner, Guard |-> g]

LetStmt(name, v)     == [type |-> "LetStmt", Name |-> name, Value |-> v]
ConstStmt(name, v)   == [type |-> "ConstStmt", Name |-> name, Value |-> v]
ReturnStmt(v)        == [type |-> "ReturnStmt", Value |-> v]
DecreeStmt(v)        == [type |-> "DecreeStmt", Value |-> v]
ExprStmt(e)          == [type |-> "ExprStmt", Expression |-> e]
FnDecl(name, params, body) == [type |-> "FnDecl", Name |-> name, Params |-> params, Body |-> body]
ExternDecl(name, params)   == [type |-> "ExternDecl", Name |-> name, Params |-> params]

(***************************************************************************)
(* The programs of the model.  Bodies holds the BlockExpr nodes that        *)
(* FnDecl.Body / FnValue.Body point to; Items holds the top-level items a   *)
(* program is made of, as the parser builds them from the source text in   *)
(* the comment.                                                            *)
(***************************************************************************)
Call(name, args) == CallExpr(IdentExpr(name), args)

\* { speak n; e }: the operand e, announced by the number n.
Told(n, e) == BlockExpr(<<ExprStmt(SpeakExpr(IntLitExpr(n)))>>, <<e>>)

Bodies == <<
    \* 1: fn set() { x = 7 }
    BlockExpr(<<>>, <<AssignExpr("x", IntLitExpr(7))>>),
    \* 2: fn fg() { sorry x }
    BlockExpr(<<>>, <<SorryExpr("x")>>),
    \* 3: fn r() { if true { return 1 } 2 }
    BlockExpr(<<ExprStmt(IfExpr(BoolLitExpr(TRUE), BlockExpr(<<ReturnStmt(IntLitExpr(1))>>, <<>>), <<>>))>>, <<IntLitExpr(2)>>),
    \* 4: fn g() { guard false else 5; 6 }
    BlockExpr(<<ExprStmt(GuardExpr(BoolLitExpr(FALSE), IntLitExpr(5)))>>, <<IntLitExpr(6)>>),
    \* 5: fn p() { err(7)?; 8 }
    BlockExpr(<<ExprStmt(PropagateExpr(ErrExpr(IntLitExpr(7))))>>, <<IntLitExpr(8)>>),
    \* 6: fn d() { speak 0; doom("boom") }
    BlockExpr(<<ExprStmt(SpeakExpr(IntLitExpr(0)))>>, <<DoomExpr(StringLitExpr("boom"))>>),
    \* 7: fn mg() { match 0 { _ if err(7)? => 2, _ => 3 } }
    BlockExpr(<<>>, <<MatchExpr(IntLitExpr(0), <<MatchArm(GuardedPattern(WildcardPattern, PropagateExpr(ErrExpr(IntLitExpr(7)))), IntLitExpr(2)),
                                      MatchArm(WildcardPattern, IntLitExpr(3))>>)>>),
    \* 8: fn outer() { r(); 9 }
    BlockExpr(<<ExprStmt(Call("r", <<>>))>>, <<IntLitExpr(9)>>),
    \* 9: fn mk(n) { fn(x) { x + n } }
    BlockExpr(<<>>, <<FnLitExpr(<<"x">>, 10)>>),
    \* 10: the body of the literal: { x + n }
    BlockExpr(<<>>, <<BinaryExpr(IdentExpr("x"), "+", IdentExpr("n"))>>),
    \* 11: fn gy() { y }
    BlockExpr(<<>>, <<IdentExpr("y")>>),
    \* 12: fn fy() { let y = 1; gy() }
    BlockExpr(<<LetStmt("y", IntLitExpr(1))>>, <<Call("gy", <<>>)>>),
    \* 13: fn two(a, b) { speak a; speak b }
    BlockExpr(<<ExprStmt(SpeakExpr(IdentExpr("a")))>>, <<SpeakExpr(IdentExpr("b"))>>),
    \* 14: fn dup(a, a) { a }
    BlockExpr(<<>>, <<IdentExpr("a")>>),
    \* 15: fn setf(c) { c[1] = 7 }
    BlockExpr(<<>>, <<IndexAssignExpr(IdentExpr("c"), IntLitExpr(1), IntLitExpr(7))>>),
    \* 16: fn cap() { a[1] = 8 }
    BlockExpr(<<>>, <<IndexAssignExpr(IdentExpr("a"), IntLitExpr(1), IntLitExpr(8))>>),
    \* 17: fn setk(c) { c["k"] = 6 }
    BlockExpr(<<>>, <<IndexAssignExpr(IdentExpr("c"), StringLitExpr("k"), IntLitExpr(6))>>),
    \* 18: fn f(x, y) { speak 4 }
    BlockExpr(<<>>, <<SpeakExpr(IntLitExpr(4))>>),
    \* 19: fn getf() { speak 1; f }
    BlockExpr(<<ExprStmt(SpeakExpr(IntLitExpr(1)))>>, <<IdentExpr("f")>>),
    \* 20: fn gf() { guard false else {speak 1; 5}; speak 2; 6 }
    BlockExpr(<<ExprStmt(GuardExpr(BoolLitExpr(FALSE), Told(1, IntLitExpr(5)))), ExprStmt(SpeakExpr(IntLitExpr(2)))>>,
              <<IntLitExpr(6)>>),
    \* 21: fn gt() { guard true else {speak 1; 5}; speak 2; 6 }
    BlockExpr(<<ExprStmt(GuardExpr(BoolLitExpr(TRUE), Told(1, IntLitExpr(5)))), ExprStmt(SpeakExpr(IntLitExpr(2)))>>,
              <<IntLitExpr(6)>>),
    \* 22: fn gd() { guard false else doom("e"); speak 2; 6 }
    BlockExpr(<<ExprStmt(GuardExpr(BoolLitExpr(FALSE), DoomExpr(StringLitExpr("e")))), ExprStmt(SpeakExpr(IntLitExpr(2)))>>,
              <<IntLitExpr(6)>>),
    \* 23: fn gn() { if true { guard 0 else 5 }; speak 2; 6 }
    BlockExpr(<<ExprStmt(IfExpr(BoolLitExpr(TRUE), BlockExpr(<<>>, <<GuardExpr(IntLitExpr(0), IntLitExpr(5))>>), <<>>)),
                ExprStmt(SpeakExpr(IntLitExpr(2)))>>,
              <<IntLitExpr(6)>>),
    \* 24: fn gm() { match 0 { _ if guard false else 1 => speak 2, _ => speak 3 }; 4 }
    BlockExpr(<<ExprStmt(MatchExpr(IntLitExpr(0),
                  <<MatchArm(GuardedPattern(WildcardPattern, GuardExpr(BoolLitExpr(FALSE), IntLitExpr(1))), SpeakExpr(IntLitExpr(2))),
                    MatchArm(WildcardPattern, SpeakExpr(IntLitExpr(3)))>>))>>,
              <<IntLitExpr(4)>>),
    \* 25: fn pe() { y?; speak 2; 8 }
    BlockExpr(<<ExprStmt(PropagateExpr(IdentExpr("y"))), ExprStmt(SpeakExpr(IntLitExpr(2)))>>, <<IntLitExpr(8)>>),
    \* 26: fn pif() { if true { speak y? }; speak 2; 8 }
    BlockExpr(<<ExprStmt(IfExpr(BoolLitExpr(TRUE), BlockExpr(<<>>, <<SpeakExpr(PropagateExpr(IdentExpr("y")))>>), <<>>)),
                ExprStmt(SpeakExpr(IntLitExpr(2)))>>,
              <<IntLitExpr(8)>>),
    \* 27: fn len(a) { speak "user"; 0 }, and free with the same body
    BlockExpr(<<ExprStmt(SpeakExpr(StringLitExpr("user")))>>, <<IntLitExpr(0)>>)
>>

(***************************************************************************)
(* Evaluator (eval.go)                                                     *)
(***************************************************************************)
RECURSIVE evalExpr(_, _), evalStmt(_, _), evalStmts(_, _, _), evalBlockExpr(_, _),
          evalArgs(_, _, _, _), callFunction(_, _, _), evalIfExpr(_, _),
          matchPattern(_, _, _), matchArms(_, _, _, _)

IsErr(r) == r.err.kind # "none"

\* v, err := ...; if err != nil { return nil, err }; K(v)
Try(r, K(_)) == IF IsErr(r) THEN Fail(r.s, r.err) ELSE K(r)

\* v := ...; K(v)
Bind(r, K(_)) == K(r)

evalFnDecl(decl, s) ==
    Ret(Define(s, s.env, decl.Name, FnVal(FnValue(decl.Name, decl.Params, decl.Body, s.env)), FALSE), NilVal)

\* case *parser.ExternDecl of evalItem (eval.go:95-108)
evalExternDecl(decl, s) ==
    Ret(Define(s, s.env, decl.Name, FnVal(FnValue(decl.Name, decl.Params, 0, s.env)), FALSE), NilVal)

\* A variant of evalLetStmt: an array or a map is copied when it is bound.
evalLetStmtCopying(stmt, s) ==
    Try(evalExpr(stmt.Value, s), LAMBDA r :
        IF r.val.Kind \in {"ValArray", "ValMap"}
        THEN Ret(Define([r.s EXCEPT !.heap = Append(@, @[r.val.Int])], r.s.env, stmt.Name,
                        [r.val EXCEPT !.Int = Len(r.s.heap) + 1], FALSE), NilVal)
        ELSE Ret(Define(r.s, r.s.env, stmt.Name, r.val, FALSE), NilVal))

evalLetStmt(stmt, s) ==
    Try(evalExpr(stmt.Value, s), LAMBDA r : Ret(Define(r.s, r.s.env, stmt.Name, r.val, FALSE), NilVal))

evalConstStmt(stmt, s) ==
    Try(evalExpr(stmt.Value, s), LAMBDA r : Ret(Define(r.s, r.s.env, stmt.Name, r.val, TRUE), NilVal))

evalReturnStmt(stmt, s) ==
    Try(evalExpr(stmt.Value, s), LAMBDA r : Raise(r.s, ReturnSignal(r.val)))

evalDecreeStmt(stmt, s) ==
    Ret([s EXCEPT !.decrees = Apply(@, stmt.Value)], NilVal)

evalStmt(stmt, s) ==
    CASE stmt.type = "LetStmt"    -> evalLetStmt(stmt, s)
      [] stmt.type = "ConstStmt"  -> evalConstStmt(stmt, s)
      [] stmt.type = "ReturnStmt" -> evalReturnStmt(stmt, s)
      [] stmt.type = "DecreeStmt" -> evalDecreeStmt(stmt, s)
      [] stmt.type = "ExprStmt"   -> evalExpr(stmt.Expression, s)
      [] OTHER -> Raise(s, DoomError("unknown stmt type: *parser." \o stmt.type))

evalItem(item, s) ==
    CASE item.type = "FnDecl"     -> evalFnDecl(item, s)
      [] item.type = "ExternDecl" -> evalExternDecl(item, s)
      [] item.type = "LetStmt"    -> evalLetStmt(item, s)
      [] item.type = "ConstStmt"  -> evalConstStmt(item, s)
      [] item.type = "ReturnStmt" -> evalReturnStmt(item, s)
      [] item.type = "DecreeStmt" -> evalDecreeStmt(item, s)
      [] item.type = "ExprStmt"   -> evalExpr(item.Expression, s)
      [] OTHER -> Raise(s, DoomError("unknown item type: *parser." \o item.type))

evalIdentExpr(expr, s) ==
    LET g == Get(s, s.env, expr.Name) IN
    IF g.error # "" THEN Raise(s, DoomError(g.error)) ELSE Ret(s, g.val)

\* ValueKind is an int (part_000:13-25): %v prints its number.
KindNum(k) ==
    CASE k = "ValInt" -> 0 [] k = "ValFloat" -> 1 [] k = "ValBool" -> 2 [] k = "ValStr" -> 3
      [] k = "ValNil" -> 4 [] k = "ValArray" -> 5 [] k = "ValMap" -> 6 [] k = "ValFn" -> 7
      [] k = "ValOk" -> 8 [] k = "ValErr" -> 9 [] k = "ValPtr" -> 10

\* The model holds no float values: the float branches of evalAdd, evalArith and
\* evalCompare are never taken.
evalAdd(left, right, s) ==
    IF left.Kind = "ValStr" \/ right.Kind = "ValStr"
    THEN Ret(s, StrVal(String(left) \o String(right)))
    ELSE IF left.Kind = "ValInt" /\ right.Kind = "ValInt"
    THEN Ret(s, IntVal(left.Int + right.Int))
    ELSE Raise(s, DoomError("cannot add " \o ToString(KindNum(left.Kind)) \o " and " \o ToString(KindNum(right.Kind))))

\* Go's integer division truncates toward zero and % takes the sign of the dividend.
Abs(n) == IF n < 0 THEN -n ELSE n
GoDiv(a, b) == (IF (a < 0) = (b < 0) THEN 1 ELSE -1) * (Abs(a) \div Abs(b))
GoMod(a, b) == a - b * GoDiv(a, b)

evalArith(left, right, op, s) ==
    IF left.Kind = "ValInt" /\ right.Kind = "ValInt"
    THEN CASE op = "-" -> Ret(s, IntVal(left.Int - right.Int))
           [] op = "*" -> Ret(s, IntVal(left.Int * right.Int))
           [] op = "/" -> (IF right.Int = 0 THEN Raise(s, DoomError("division by zero"))
                           ELSE Ret(s, IntVal(GoDiv(left.Int, right.Int))))
           [] op = "%" -> (IF right.Int = 0 THEN Raise(s, DoomError("division by zero"))
                           ELSE Ret(s, IntVal(GoMod(left.Int, right.Int))))
    ELSE Raise(s, DoomError("cannot perform " \o op \o " on " \o ToString(KindNum(left.Kind))
                            \o " and " \o ToString(KindNum(right.Kind))))

\* Strings are compared in the evaluator only for equality in this model.
evalCompare(left, right, op, s) ==
    IF left.Kind = "ValInt" /\ right.Kind = "ValInt"
    THEN CASE op = "<"  -> Ret(s, BoolVal(left.Int < right.Int))
           [] op = ">"  -> Ret(s, BoolVal(left.Int > right.Int))
           [] op = "<=" -> Ret(s, BoolVal(left.Int <= right.Int))
           [] op = ">=" -> Ret(s, BoolVal(left.Int >= right.Int))
    ELSE Raise(s, DoomError("cannot compare " \o ToString(KindNum(left.Kind))
                            \o " and " \o ToString(KindNum(right.Kind))))

valuesEqual(a, b) ==
    IF a.Kind # b.Kind THEN FALSE
    ELSE CASE a.Kind = "ValInt"  -> a.Int = b.Int
           [] a.Kind = "ValBool" -> a.Bool = b.Bool
           [] a.Kind = "ValStr"  -> a.Str = b.Str
           [] a.Kind = "ValNil"  -> TRUE
           [] OTHER -> FALSE

RECURSIVE valuesStrictEqual(_, _)
valuesStrictEqual(a, b) ==
    IF a.Kind # b.Kind THEN FALSE
    ELSE CASE a.Kind = "ValInt"  -> a.Int = b.Int
           [] a.Kind = "ValBool" -> a.Bool = b.Bool
           [] a.Kind = "ValStr"  -> a.Str = b.Str
           [] a.Kind = "ValNil"  -> TRUE
           [] a.Kind = "ValOk"   -> valuesStrictEqual(a.Inner[1], b.Inner[1])
           [] a.Kind = "ValErr"  -> valuesStrictEqual(a.Inner[1], b.Inner[1])
           [] a.Kind = "ValPtr"  -> a.Int = b.Int
           [] a.Kind \in {"ValArray", "ValMap"} -> a.Int = b.Int    \* a == b on pointers
           [] OTHER -> FALSE    \* a == b on pointers: two evaluations never give the same *Value

\* &Value{Kind: ValArray, Array: elems} and &Value{Kind: ValMap, Map: m}: a new
\* Value in the heap.
NewArray(s, elems) == [s EXCEPT !.heap = Append(@, [Array |-> elems, Map |-> NewOrderedMap])]
NewMap(s, m) == [s EXCEPT !.heap = Append(@, [Array |-> <<>>, Map |-> m])]
LastValue(s) == Len(s.heap)

\* A variant of adjustIndex: every base is zero.
adjustIndexZero(s, idx) == idx

adjustIndex(s, idx) ==
    CASE s.decrees.IndexingBase = "zero" -> idx
      [] s.decrees.IndexingBase = "one" -> idx - 1
      [] s.decrees.IndexingBase = "weekday" -> (IF s.weekend THEN idx ELSE idx - 1)
      [] OTHER -> idx

\* left.Array[idx] = val
storeElement(s, a, idx, val) == [s EXCEPT !.heap[a].Array[idx + 1] = val]

\* left.Map.Set(key, val)
storeKey(s, a, key, val) == [s EXCEPT !.heap[a].Map = OrderedMapSet(@, key, val)]

\* left.Map.Get(key), nil for a key that is absent
loadKey(s, a, key) ==
    IF OrderedMapGet(s.heap[a].Map, key).ok THEN OrderedMapGet(s.heap[a].Map, key).v ELSE NilVal

\* A variant of ambitiousStore: the index is used as it is written, whatever the
\* indexing base.
ambitiousStoreUnadjusted(collection, index, right, s) ==
    CASE collection.Kind = "ValArray" ->
            (IF index.Kind = "ValInt" /\ index.Int >= 0 /\ index.Int < Len(s.heap[collection.Int].Array)
             THEN Ret(storeElement(s, collection.Int, index.Int, right), right)
             ELSE Ret(s, right))
      [] collection.Kind = "ValMap" -> Ret(storeKey(s, collection.Int, String(index), right), right)
      [] OTHER -> Ret(s, right)

\* The IndexExpr case of an ambitious "==" (eval.go:349-368): the store is skipped,
\* without an error, when the index is no int or out of range.
ambitiousStore(collection, index, right, s) ==
    CASE collection.Kind = "ValArray" ->
            (IF index.Kind = "ValInt" /\ adjustIndex(s, index.Int) >= 0
                /\ adjustIndex(s, index.Int) < Len(s.heap[collection.Int].Array)
             THEN Ret(storeElement(s, collection.Int, adjustIndex(s, index.Int), right), right)
             ELSE Ret(s, right))
      [] collection.Kind = "ValMap" -> Ret(storeKey(s, collection.Int, String(index), right), right)
      [] OTHER -> Ret(s, right)

\* case "==" (eval.go:340-378): under ambitious_mode, with a truthy right operand and
\* an assignable left operand, an assignment; the collection and the index of the
\* left operand are evaluated a second time.
ambitiousAssign(expr, left, right, s) ==
    IF s.decrees.AmbitiousMode /\ IsTruthy(right) /\ expr.Left.type = "IdentExpr"
    THEN LET st == Set(s, s.env, expr.Left.Name, right) IN
         IF st.error # "" THEN Raise(s, DoomError(st.error)) ELSE Ret(st.s, right)
    ELSE IF s.decrees.AmbitiousMode /\ IsTruthy(right) /\ expr.Left.type = "IndexExpr"
    THEN Try(evalExpr(expr.Left.Left, s), LAMBDA collection :
            Try(evalExpr(expr.Left.Index, collection.s), LAMBDA index :
                ambitiousStore(collection.val, index.val, right, index.s)))
    ELSE IF s.decrees.AmbitiousMode /\ IsTruthy(right) /\ expr.Left.type = "DotExpr"
    THEN Try(evalExpr(expr.Left.Left, s), LAMBDA obj :
            IF obj.val.Kind = "ValMap"
            THEN Ret(storeKey(obj.s, obj.val.Int, expr.Left.Field, right), right)
            ELSE Ret(obj.s, right))
    ELSE Ret(s, BoolVal(valuesEqual(left, right)))

evalBinaryExpr(expr, s) ==
    Try(evalExpr(expr.Left, s), LAMBDA l :
        IF expr.Op = "and"
        THEN (IF ~IsTruthy(l.val) THEN Ret(l.s, l.val) ELSE evalExpr(expr.Right, l.s))
        ELSE IF expr.Op = "or"
        THEN (IF IsTruthy(l.val) THEN Ret(l.s, l.val) ELSE evalExpr(expr.Right, l.s))
        ELSE Try(evalExpr(expr.Right, l.s), LAMBDA r :
                CASE expr.Op = "+" -> evalAdd(l.val, r.val, r.s)
                  [] expr.Op \in {"-", "*", "/", "%"} -> evalArith(l.val, r.val, expr.Op, r.s)
                  [] expr.Op = "==" -> ambitiousAssign(expr, l.val, r.val, r.s)
                  [] expr.Op = "===" -> Ret(r.s, BoolVal(valuesStrictEqual(l.val, r.val)))
                  [] expr.Op = "!=" -> Ret(r.s, BoolVal(~valuesEqual(l.val, r.val)))
                  [] expr.Op \in {"<", ">", "<=", ">="} -> evalCompare(l.val, r.val, expr.Op, r.s)
                  [] OTHER -> Raise(r.s, DoomError("unknown operator: " \o expr.Op))))

RECURSIVE evalElements(_, _, _, _), evalPairs(_, _, _, _)
\* The loop over expr.Elements of evalArrayLitExpr (eval.go:277-283), from element i on.
evalElements(elems, i, s, acc) ==
    IF i > Len(elems) THEN [s |-> s, val |-> NilVal, err |-> NoErr, vals |-> acc]
    ELSE Try(evalExpr(elems[i], s), LAMBDA r : evalElements(elems, i + 1, r.s, Append(acc, r.val)))

evalArrayLitExpr(expr, s) ==
    Try(evalElements(expr.Elements, 1, s, <<>>), LAMBDA e :
        Ret(NewArray(e.s, e.vals), ArrayVal(LastValue(e.s) + 1)))

\* The loop over expr.Pairs of evalMapLitExpr (eval.go:289-299), from pair i on.
evalPairs(pairs, i, s, m) ==
    IF i > Len(pairs) THEN [s |-> s, val |-> NilVal, err |-> NoErr, m |-> m]
    ELSE Try(evalExpr(pairs[i].Key, s), LAMBDA key :
            Try(evalExpr(pairs[i].Value, key.s), LAMBDA val :
                evalPairs(pairs, i + 1, val.s, OrderedMapSet(m, String(key.val), val.val))))

evalMapLitExpr(expr, s) ==
    Try(evalPairs(expr.Pairs, 1, s, NewOrderedMap), LAMBDA e :
        Ret(NewMap(e.s, e.m), MapVal(LastValue(e.s) + 1)))

\* The switch of evalIndexAssignExpr (eval.go:601-618).
indexAssign(left, index, val, s) ==
    CASE left.Kind = "ValArray" ->
            (IF index.Kind # "ValInt" THEN Raise(s, DoomError("array index must be int"))
             ELSE IF adjustIndex(s, index.Int) < 0 \/ adjustIndex(s, index.Int) >= Len(s.heap[left.Int].Array)
             THEN Raise(s, DoomError("array index out of bounds: " \o ToString(adjustIndex(s, index.Int))))
             ELSE Ret(storeElement(s, left.Int, adjustIndex(s, index.Int), val), val))
      [] left.Kind = "ValMap" -> Ret(storeKey(s, left.Int, String(index), val), val)
      [] OTHER -> Raise(s, DoomError("cannot assign to index of " \o String(left)))

evalIndexAssignExpr(expr, s) ==
    Try(evalExpr(expr.Left, s), LAMBDA left :
        Try(evalExpr(expr.Index, left.s), LAMBDA index :
            Try(evalExpr(expr.Value, index.s), LAMBDA val :
                indexAssign(left.val, index.val, val.val, val.s))))

evalDotAssignExpr(expr, s) ==
    Try(evalExpr(expr.Left, s), LAMBDA left :
        Try(evalExpr(expr.Value, left.s), LAMBDA val :
            IF left.val.Kind # "ValMap"
            THEN Raise(val.s, DoomError("cannot assign field " \o expr.Field \o " on " \o String(left.val)))
            ELSE Ret(storeKey(val.s, left.val.Int, expr.Field, val.val), val.val)))

\* The switch of evalIndexExpr (eval.go:717-746); the strings of the model hold
\* one-byte characters only, so that a rune is a character of the string.
index(left, idx, s) ==
    CASE left.Kind = "ValArray" ->
            (IF idx.Kind # "ValInt" THEN Raise(s, DoomError("array index must be int"))
             ELSE IF adjustIndex(s, idx.Int) < 0 \/ adjustIndex(s, idx.Int) >= Len(s.heap[left.Int].Array)
             THEN Raise(s, DoomError("array index out of bounds: " \o ToString(adjustIndex(s, idx.Int))))
             ELSE Ret(s, s.heap[left.Int].Array[adjustIndex(s, idx.Int) + 1]))
      [] left.Kind = "ValMap" -> Ret(s, loadKey(s, left.Int, String(idx)))
      [] left.Kind = "ValStr" ->
            (IF idx.Kind # "ValInt" THEN Raise(s, DoomError("string index must be int"))
             ELSE IF adjustIndex(s, idx.Int) < 0 \/ adjustIndex(s, idx.Int) >= Len(left.Str)
             THEN Raise(s, DoomError("string index out of bounds: " \o ToString(adjustIndex(s, idx.Int))))
             ELSE Ret(s, StrVal(SubSeq(left.Str, adjustIndex(s, idx.Int) + 1, adjustIndex(s, idx.Int) + 1))))
      [] OTHER -> Raise(s, DoomError("cannot index into " \o String(left)))

evalIndexExpr(expr, s) ==
    Try(evalExpr(expr.Left, s), LAMBDA left :
        Try(evalExpr(expr.Index, left.s), LAMBDA idx : index(left.val, idx.val, idx.s)))

evalDotExpr(expr, s) ==
    Try(evalExpr(expr.Left, s), LAMBDA left :
        IF left.val.Kind = "ValMap" THEN Ret(left.s, loadKey(left.s, left.val.Int, expr.Field))
        ELSE Raise(left.s, DoomError("cannot access field " \o expr.Field \o " on " \o String(left.val))))

evalUnaryExpr(expr, s) ==
    Try(evalExpr(expr.Right, s), LAMBDA r :
        CASE expr.Op = "-" -> (IF r.val.Kind = "ValInt" THEN Ret(r.s, IntVal(-r.val.Int))
                               ELSE Raise(r.s, DoomError("cannot negate non-numeric value")))
          [] expr.Op = "!" -> Ret(r.s, BoolVal(~IsTruthy(r.val)))
          [] expr.Op = "&" -> Ret(r.s, PtrVal(0))
          [] OTHER -> Raise(r.s, DoomError("unknown unary operator: " \o expr.Op)))

\* ev.env.Set and the conversion of its error (eval.go:581-583).
assign(name, val, s) ==
    LET st == Set(s, s.env, name, val) IN
    IF st.error # "" THEN Raise(s, DoomError(st.error)) ELSE Ret(st.s, val)

evalAssignExpr(expr, s) ==
    Try(evalExpr(expr.Value, s), LAMBDA r : assign(expr.Name, r.val, r.s))

\* The loop over expr.Args of evalCallExpr (eval.go:640-647), from argument i on;
\* vals is the slice args.
evalArgs(args, i, s, acc) ==
    IF i > Len(args) THEN [s |-> s, val |-> NilVal, err |-> NoErr, vals |-> acc]
    ELSE Try(evalExpr(args[i], s), LAMBDA r : evalArgs(args, i + 1, r.s, Append(acc, r.val)))

builtinLen(args, s) ==
    IF Len(args) # 1
    THEN [r |-> Raise(s, DoomError("len() takes exactly 1 argument")), isBuiltin |-> TRUE]
    ELSE IF args[1].Kind = "ValArray"
    THEN [r |-> Ret(s, IntVal(Len(s.heap[args[1].Int].Array))), isBuiltin |-> TRUE]
    ELSE IF args[1].Kind = "ValStr"
    THEN [r |-> Ret(s, IntVal(Len(args[1].Str))), isBuiltin |-> TRUE]
    ELSE IF args[1].Kind = "ValMap"
    THEN [r |-> Ret(s, IntVal(Len(s.heap[args[1].Int].Map.keys))), isBuiltin |-> TRUE]
    ELSE [r |-> Raise(s, DoomError("len() argument must be array, string, or map")), isBuiltin |-> TRUE]

\* The model's file system holds no file: os.ReadFile fails.
builtinReadFile(args, s) ==
    IF Len(args) # 1 \/ args[1].Kind # "ValStr"
    THEN [r |-> Ret(s, ErrVal(StrVal("read_file() takes exactly 1 string argument"))), isBuiltin |-> TRUE]
    ELSE [r |-> Ret(s, ErrVal(StrVal("open " \o args[1].Str \o ": no such file or directory"))), isBuiltin |-> TRUE]

callBuiltin(name, args, s) ==
    CASE name = "len"        -> builtinLen(args, s)
      [] name = "malloc"     -> [r |-> Ret(s, PtrVal(0)), isBuiltin |-> TRUE]
      [] name = "free"       -> [r |-> Ret(s, OkVal(NilVal)), isBuiltin |-> TRUE]
      [] name = "read"       -> [r |-> Ret(s, StrVal("")), isBuiltin |-> TRUE]
      [] name = "write"      -> [r |-> Ret(s, OkVal(NilVal)), isBuiltin |-> TRUE]
      [] name = "read_file"  -> builtinReadFile(args, s)
      [] name = "parse_toml" -> [r |-> Ret(s, ErrVal(StrVal("not implemented"))), isBuiltin |-> TRUE]
      [] OTHER -> [r |-> Ret(s, NilVal), isBuiltin |-> FALSE]

\* A variant of callee: the environment is asked first, and the built-in handles
\* the call only when the name is not bound.
calleeBoundFirst(expr, args, s) ==
    IF expr.Function.type = "IdentExpr" /\ Get(s, s.env, expr.Function.Name).error # ""
    THEN callBuiltin(expr.Function.Name, args, s).r
    ELSE Try(evalExpr(expr.Function, s), LAMBDA f :
            IF f.val.Kind # "ValFn"
            THEN Raise(f.s, DoomError("cannot call non-function: " \o String(f.val)))
            ELSE callFunction(f.val.Fn[1], args, f.s))

\* evalCallExpr once the arguments are evaluated (eval.go:651-667).
callee(expr, args, s) ==
    LET b == IF expr.Function.type = "IdentExpr"
             THEN callBuiltin(expr.Function.Name, args, s)
             ELSE [r |-> Ret(s, NilVal), isBuiltin |-> FALSE] IN
    IF b.isBuiltin THEN b.r
    ELSE Try(evalExpr(expr.Function, s), LAMBDA f :
            IF f.val.Kind # "ValFn"
            THEN Raise(f.s, DoomError("cannot call non-function: " \o String(f.val)))
            ELSE callFunction(f.val.Fn[1], args, f.s))

evalCallExpr(expr, s) ==
    Try(evalArgs(expr.Args, 1, s, <<>>), LAMBDA a : callee(expr, a.vals, a.s))

\* A variant of bindParams: a parameter without an argument is left unbound.
RECURSIVE bindParamsGiven(_, _, _, _, _)
bindParamsGiven(params, args, i, callEnv, s) ==
    IF i > Len(params) \/ i > Len(args) THEN s
    ELSE bindParamsGiven(params, args, i + 1, callEnv, Define(s, callEnv, params[i], args[i], FALSE))

\* The loop over fn.Params of callFunction (eval.go:677-683), from parameter i on.
RECURSIVE bindParams(_, _, _, _, _)
bindParams(params, args, i, callEnv, s) ==
    IF i > Len(params) THEN s
    ELSE bindParams(params, args, i + 1, callEnv,
                    Define(s, callEnv, params[i], IF i <= Len(args) THEN args[i] ELSE NilVal, FALSE))

\* callFunction up to the evaluation of the body (eval.go:676-686): the state in
\* which the body starts, ev.env being the call environment.
enterCall(fn, args, s) ==
    LET s1 == NewEnv(s, fn.Env)
        callEnv == LastEnv(s1) IN
    [bindParams(fn.Params, args, 1, callEnv, s1) EXCEPT !.env = callEnv, !.depth = @ + 1]

\* The switch on the body's error of callFunction (eval.go:690-704).
callResult(s, r) ==
    CASE r.err.kind = "none"      -> Ret(s, r.val)
      [] r.err.kind = "return"    -> Ret(s, r.err.value)
      [] r.err.kind = "guard"     -> Ret(s, r.err.value)
      [] r.err.kind = "propagate" -> Ret(s, ErrVal(r.err.value))
      [] OTHER                    -> Fail(s, r.err)

\* callFunction once the body has returned r (eval.go:688-704).  s.calls records,
\* for the claims, the call just completed: the part of s.raised constructed while
\* the body ran, the depth of the body and what the caller got.
leaveCall(fn, s, r) ==
    LET out == callResult([r.s EXCEPT !.env = s.env, !.depth = s.depth], r) IN
    [out EXCEPT !.s.calls = Append(@, [name |-> fn.Name, from |-> Len(s.raised), to |-> Len(r.s.raised),
                                      depth |-> s.depth + 1, val |-> out.val, err |-> out.err,
                                      outlen |-> Len(r.s.output)])]

callFunction(fn, args, s) ==
    IF fn.Body = 0 THEN Ret(s, NilVal)
    ELSE leaveCall(fn, s, evalBlockExpr(Bodies[fn.Body], enterCall(fn, args, s)))

evalPropagateExpr(expr, s) ==
    Try(evalExpr(expr.Inner, s), LAMBDA r :
        CASE r.val.Kind = "ValOk"  -> Ret(r.s, r.val.Inner[1])
          [] r.val.Kind = "ValErr" -> Raise(r.s, PropagateError(r.val.Inner[1]))
          [] r.val.Kind = "ValNil" -> Raise(r.s, PropagateError(StrVal("nil")))
          [] OTHER -> Ret(r.s, r.val))

\* expr.Else is a BlockExpr, an IfExpr or nil (decree.go:2156-2167).
evalIfExpr(expr, s) ==
    Try(evalExpr(expr.Condition, s), LAMBDA c :
        IF IsTruthy(c.val) THEN evalBlockExpr(expr.Then, c.s)
        ELSE IF expr.Else # <<>>
        THEN CASE expr.Else[1].type = "BlockExpr" -> evalBlockExpr(expr.Else[1], c.s)
               [] expr.Else[1].type = "IfExpr"    -> evalIfExpr(expr.Else[1], c.s)
               [] OTHER -> evalExpr(expr.Else[1], c.s)
        ELSE Ret(c.s, NilVal))

HasPrefix(str, prefix) == Len(str) >= Len(prefix) /\ SubSeq(str, 1, Len(prefix)) = prefix
HasSuffix(str, suffix) == Len(str) >= Len(suffix) /\ SubSeq(str, Len(str) - Len(suffix) + 1, Len(str)) = suffix

matchesType(val, typeName) ==
    CASE typeName = "int"   -> val.Kind = "ValInt"
      [] typeName = "float" -> val.Kind = "ValFloat"
      [] typeName = "bool"  -> val.Kind = "ValBool"
      [] typeName \in {"str", "string"} -> val.Kind = "ValStr"
      [] typeName = "array" -> val.Kind = "ValArray"
      [] typeName = "map"   -> val.Kind = "ValMap"
      [] typeName = "fn"    -> val.Kind = "ValFn"
      [] typeName = "ptr"   -> val.Kind = "ValPtr"
      [] typeName = "nil"   -> val.Kind = "ValNil"
      [] typeName = "ok"    -> val.Kind = "ValOk"
      [] typeName = "err"   -> val.Kind = "ValErr"
      [] typeName = "result" -> val.Kind \in {"ValOk", "ValErr"}
      [] OTHER -> FALSE

\* for name, val := range bindings { env.Define(name, val, false) } (eval.go:830-832, 896-898)
RECURSIVE defineAll(_, _, _, _)
defineAll(bindings, i, e, s) ==
    IF i > Len(bindings) THEN s
    ELSE defineAll(bindings, i + 1, e, Define(s, e, bindings[i].name, bindings[i].val, FALSE))

\* A variant of enterBindings: the bindings of the pattern are defined in ev.env.
enterBindingsInPlace(bindings, s) == defineAll(bindings, 1, s.env, s)

\* A fresh child of ev.env holding the bindings of a pattern, made the current
\* environment (eval.go:829-834, 895-900).
enterBindings(bindings, s) ==
    LET s1 == NewEnv(s, s.env) IN
    [defineAll(bindings, 1, LastEnv(s1), s1) EXCEPT !.env = LastEnv(s1)]

NoMatch(s) == [s |-> s, matched |-> FALSE, bindings |-> <<>>]

\* case *parser.IdentPattern of matchPattern (eval.go:857-880)
matchIdentPattern(p, subject, s) ==
    IF HasPrefix(p.Name, "ok(") /\ HasSuffix(p.Name, ")")
    THEN LET inner == SubSeq(p.Name, 4, Len(p.Name) - 1) IN
         IF subject.Kind # "ValOk" THEN NoMatch(s)
         ELSE [s |-> s, matched |-> TRUE,
               bindings |-> IF inner # "" THEN <<[name |-> inner, val |-> subject.Inner[1]]>> ELSE <<>>]
    ELSE IF HasPrefix(p.Name, "err(") /\ HasSuffix(p.Name, ")")
    THEN LET inner == SubSeq(p.Name, 5, Len(p.Name) - 1) IN
         IF subject.Kind # "ValErr" THEN NoMatch(s)
         ELSE [s |-> s, matched |-> TRUE,
               bindings |-> IF inner # "" THEN <<[name |-> inner, val |-> subject.Inner[1]]>> ELSE <<>>]
    ELSE [s |-> s, matched |-> TRUE, bindings |-> <<[name |-> p.Name, val |-> subject]>>]

\* case *parser.GuardedPattern of matchPattern (eval.go:889-906): an error of the
\* guard's evaluation is dropped and the arm does not match.
matchGuardedPattern(p, subject, s) ==
    Bind(matchPattern(p.Inner, subject, s), LAMBDA m :
        IF ~m.matched THEN NoMatch(m.s)
        ELSE Bind(evalExpr(p.Guard, enterBindings(m.bindings, m.s)), LAMBDA g :
                IF IsErr(g) \/ ~IsTruthy(g.val) THEN NoMatch([g.s EXCEPT !.env = m.s.env])
                ELSE [s |-> [g.s EXCEPT !.env = m.s.env], matched |-> TRUE, bindings |-> m.bindings]))

\* case *parser.LiteralPattern of matchPattern (eval.go:850-855): an error of the
\* literal's evaluation is dropped and the arm does not match.
matchLiteralPattern(p, subject, s) ==
    Bind(evalExpr(p.Value, s), LAMBDA l :
        IF IsErr(l) THEN NoMatch(l.s)
        ELSE [s |-> l.s, matched |-> valuesEqual(subject, l.val), bindings |-> <<>>])

matchPattern(pat, subject, s) ==
    CASE pat.type = "WildcardPattern" -> [s |-> s, matched |-> TRUE, bindings |-> <<>>]
      [] pat.type = "LiteralPattern" -> matchLiteralPattern(pat, subject, s)
      [] pat.type = "IdentPattern" -> matchIdentPattern(pat, subject, s)
      [] pat.type = "TypedPattern" ->
            (IF matchesType(subject, pat.TypeName)
             THEN [s |-> s, matched |-> TRUE, bindings |-> <<[name |-> pat.Name, val |-> subject]>>]
             ELSE NoMatch(s))
      [] pat.type = "GuardedPattern" -> matchGuardedPattern(pat, subject, s)
      [] OTHER -> NoMatch(s)

\* What evalMatchExpr did, for the record: the pattern of arm `arm` was matched
\* against the subject, with the result `matched`; the body of the arm was
\* evaluated, in the environment `scope`, by a match entered in `env` when nenvs
\* environments existed, and left in `after`; or the arms were exhausted.
MatchEvent(kind, arm, matched, subject, bindings, saved, nenvs, scope, after) ==
    [kind |-> kind, arm |-> arm, matched |-> matched, subject |-> subject, bindings |-> bindings,
     env |-> saved, nenvs |-> nenvs, scope |-> scope, after |-> after]

Tried(s, i, m, subject) ==
    [s EXCEPT !.matches = Append(@, MatchEvent("pattern", i, m.matched, subject, m.bindings, s.env, Len(s.envs), 0, s.env))]

BodyDone(s, i, m, subject, entered) ==
    [s EXCEPT !.matches = Append(@, MatchEvent("body", i, TRUE, subject, m.bindings, m.s.env, Len(m.s.envs), entered.env, s.env))]

Exhausted(s, n, subject) ==
    [s EXCEPT !.matches = Append(@, MatchEvent("exhausted", n, FALSE, subject, <<>>, s.env, Len(s.envs), 0, s.env))]

\* The body of the arm that matched (eval.go:829-838), in the environment entered.
armBody(arms, i, subject, m, entered) ==
    Bind(evalExpr(arms[i].Body, entered), LAMBDA r :
        [r EXCEPT !.s = BodyDone([r.s EXCEPT !.env = m.s.env], i, m, subject, entered)])

\* The loop over expr.Arms of evalMatchExpr (eval.go:826-840), from arm i on.
matchArms(arms, i, subject, s) ==
    IF i > Len(arms)
    THEN Raise(Exhausted(s, Len(arms), subject),
               DoomError("match exhausted: no arm matched value " \o String(subject)))
    ELSE Bind(matchPattern(arms[i].Pattern, subject, s), LAMBDA m :
            IF m.matched
            THEN armBody(arms, i, subject, m, enterBindings(m.bindings, Tried(m.s, i, m, subject)))
            ELSE matchArms(arms, i + 1, subject, Tried(m.s, i, m, subject)))

evalMatchExpr(expr, s) ==
    Try(evalExpr(expr.Subject, s), LAMBDA subj : matchArms(expr.Arms, 1, subj.val, subj.s))

evalGuardExpr(expr, s) ==
    Try(evalExpr(expr.Condition, s), LAMBDA c :
        IF ~IsTruthy(c.val)
        THEN Try(evalExpr(expr.ElseBody, c.s), LAMBDA v : Raise(v.s, GuardReturnSignal(v.val)))
        ELSE Ret(c.s, NilVal))

\* The loop over block.Stmts of evalBlockExpr (eval.go:965-971), from statement i on.
evalStmts(stmts, i, s) ==
    IF i > Len(stmts) THEN Ret(s, NilVal)
    ELSE Try(evalStmt(stmts[i], s), LAMBDA r : evalStmts(stmts, i + 1, r.s))

\* A variant of restoreEnv: ev.env is left as the block had it.
restoreEnvNever(r, savedEnv) == r

\* return with ev.env = savedEnv
restoreEnv(r, savedEnv) == [r EXCEPT !.s.env = savedEnv]

evalBlockExpr(block, s) ==
    Bind(evalStmts(block.Stmts, 1, [NewEnv(s, s.env) EXCEPT !.env = Len(s.envs) + 1]), LAMBDA b :
        IF IsErr(b) THEN restoreEnv(Fail(b.s, b.err), s.env)
        ELSE IF block.FinalExpr # <<>>
        THEN Bind(evalExpr(block.FinalExpr[1], b.s), LAMBDA r :
                IF IsErr(r) THEN restoreEnv(Fail(r.s, r.err), s.env)
                ELSE restoreEnv(Ret(r.s, r.val), s.env))
        ELSE restoreEnv(Ret(b.s, NilVal), s.env))

evalOkExpr(expr, s) ==
    Try(evalExpr(expr.Inner, s), LAMBDA r : Ret(r.s, OkVal(r.val)))

evalErrExpr(expr, s) ==
    Try(evalExpr(expr.Inner, s), LAMBDA r : Ret(r.s, ErrVal(r.val)))

\* The writer of the model never fails (a bytes.Buffer, eval_test.go:23-25).
evalSpeakExpr(expr, s) ==
    Try(evalExpr(expr.Value, s), LAMBDA r :
        Ret([r.s EXCEPT !.output = Append(@, String(r.val))], OkVal(NilVal)))

evalDoomExpr(expr, s) ==
    Try(evalExpr(expr.Message, s), LAMBDA r : Raise(r.s, DoomError(String(r.val))))

\* A variant of evalSorryExpr: the decree is not looked at.
evalSorryExprForgiving(expr, s) ==
    LET f == Forgive(s, s.env, expr.Name) IN
    IF f.error # "" THEN Ret(s, ErrVal(StrVal(f.error)))
    ELSE Ret(f.s, OkVal(NilVal))

evalSorryExpr(expr, s) ==
    IF s.decrees.NoForgiveness THEN Ret(s, ErrVal(StrVal("no")))
    ELSE LET f == Forgive(s, s.env, expr.Name) IN
         IF f.error # "" THEN Ret(s, ErrVal(StrVal(f.error)))
         ELSE Ret(f.s, OkVal(NilVal))

evalChantExpr(expr, s) ==
    Try(evalExpr(expr.Name, s), LAMBDA r : Ret(r.s, OkVal(NilVal)))

\* A variant of evalSpawnExpr: the body is left for later and spawn yields nil at once.
evalSpawnExprDeferred(expr, s) == Ret(s, NilVal)

\* case *parser.SpawnExpr of evalExpr (eval.go:252-258)
evalSpawnExpr(expr, s) ==
    Try(evalBlockExpr(expr.Body, s), LAMBDA r : Ret(r.s, NilVal))

evalExpr(expr, s) ==
    CASE expr.type = "IntLitExpr"    -> Ret(s, IntVal(expr.Value))
      [] expr.type = "StringLitExpr" -> Ret(s, StrVal(expr.Value))
      [] expr.type = "BoolLitExpr"   -> Ret(s, BoolVal(expr.Value))
      [] expr.type = "NilLitExpr"    -> Ret(s, NilVal)
      [] expr.type = "IdentExpr"     -> evalIdentExpr(expr, s)
      [] expr.type = "ArrayLitExpr"  -> evalArrayLitExpr(expr, s)
      [] expr.type = "MapLitExpr"    -> evalMapLitExpr(expr, s)
      [] expr.type = "IndexAssignExpr" -> evalIndexAssignExpr(expr, s)
      [] expr.type = "DotAssignExpr" -> evalDotAssignExpr(expr, s)
      [] expr.type = "IndexExpr"     -> evalIndexExpr(expr, s)
      [] expr.type = "DotExpr"       -> evalDotExpr(expr, s)
      [] expr.type = "BinaryExpr"    -> evalBinaryExpr(expr, s)
      [] expr.type = "UnaryExpr"     -> evalUnaryExpr(expr, s)
      [] expr.type = "AssignExpr"    -> evalAssignExpr(expr, s)
      [] expr.type = "CallExpr"      -> evalCallExpr(expr, s)
      [] expr.type = "PropagateExpr" -> evalPropagateExpr(expr, s)
      [] expr.type = "IfExpr"        -> evalIfExpr(expr, s)
      [] expr.type = "MatchExpr"     -> evalMatchExpr(expr, s)
      [] expr.type = "GuardExpr"     -> evalGuardExpr(expr, s)
      [] expr.type = "BlockExpr"     -> evalBlockExpr(expr, s)
      [] expr.type = "OkExpr"        -> evalOkExpr(expr, s)
      [] expr.type = "ErrExpr"       -> evalErrExpr(expr, s)
      [] expr.type = "SpeakExpr"     -> evalSpeakExpr(expr, s)
      [] expr.type = "DoomExpr"      -> evalDoomExpr(expr, s)
      [] expr.type = "SorryExpr"     -> evalSorryExpr(expr, s)
      [] expr.type = "ChantExpr"     -> evalChantExpr(expr, s)
      [] expr.type = "SpawnExpr"     -> evalSpawnExpr(expr, s)
      [] expr.type = "AwaitAllExpr"  -> Ret(s, NilVal)
      [] OTHER -> Raise(s, DoomError("unknown expr type: *parser." \o expr.type))

(***************************************************************************)
(* Programs: the items Eval is run on                                      *)
(***************************************************************************)
Items == <<
    \* ---- scopes, const and sorry
    (* 1 *) ConstStmt("x", IntLitExpr(1)),                                  \* const x = 1
    (* 2 *) LetStmt("x", IntLitExpr(2)),                                    \* let x = 2
    (* 3 *) ExprStmt(AssignExpr("x", IntLitExpr(3))),                       \* x = 3
    (* 4 *) ExprStmt(SorryExpr("x")),                                       \* sorry x
    (* 5 *) ExprStmt(BlockExpr(<<>>, <<SorryExpr("x")>>)),                  \* { sorry x }
    (* 6 *) ExprStmt(BlockExpr(<<>>, <<AssignExpr("x", IntLitExpr(4))>>)),  \* { x = 4 }
    (* 7 *) ExprStmt(BlockExpr(<<LetStmt("x", IntLitExpr(5))>>,
                               <<AssignExpr("x", IntLitExpr(6))>>)),        \* { let x = 5; x = 6 }
    (* 8 *) FnDecl("set", <<>>, 1),                                         \* fn set() { x = 7 }
    (* 9 *) ExprStmt(Call("set", <<>>)),                                    \* set()
    (* 10 *) FnDecl("fg", <<>>, 2),                                         \* fn fg() { sorry x }
    (* 11 *) ExprStmt(Call("fg", <<>>)),                                    \* fg()
    (* 12 *) ExprStmt(SpeakExpr(IdentExpr("x"))),                           \* speak x
    (* 13 *) ExprStmt(AssignExpr("y", IntLitExpr(1))),                      \* y = 1
    \* ---- signals at a call boundary
    (* 14 *) FnDecl("r", <<>>, 3),
    (* 15 *) FnDecl("g", <<>>, 4),
    (* 16 *) FnDecl("p", <<>>, 5),
    (* 17 *) FnDecl("d", <<>>, 6),
    (* 18 *) FnDecl("mg", <<>>, 7),
    (* 19 *) FnDecl("outer", <<>>, 8),
    (* 20 *) ExprStmt(SpeakExpr(Call("r", <<>>))),                          \* speak r()
    (* 21 *) ExprStmt(SpeakExpr(Call("g", <<>>))),                          \* speak g()
    (* 22 *) ExprStmt(SpeakExpr(Call("p", <<>>))),                          \* speak p()
    (* 23 *) ExprStmt(SpeakExpr(Call("d", <<>>))),                          \* speak d()
    (* 24 *) ExprStmt(SpeakExpr(Call("mg", <<>>))),                         \* speak mg()
    (* 25 *) ExprStmt(SpeakExpr(Call("outer", <<>>))),                      \* speak outer()
    \* ---- signals at the top level
    (* 26 *) ReturnStmt(IntLitExpr(1)),                                     \* return 1
    (* 27 *) ExprStmt(PropagateExpr(ErrExpr(IntLitExpr(7)))),               \* err(7)?
    (* 28 *) ExprStmt(PropagateExpr(NilLitExpr)),                           \* nil?
    (* 29 *) ExprStmt(GuardExpr(BoolLitExpr(FALSE), StringLitExpr("no"))),  \* guard false else "no"
    (* 30 *) ExprStmt(DoomExpr(StringLitExpr("boom"))),                     \* doom("boom")
    (* 31 *) ExprStmt(SpeakExpr(IntLitExpr(1))),                            \* speak 1
    (* 32 *) LetStmt("z", PropagateExpr(OkExpr(IntLitExpr(3)))),            \* let z = ok(3)?
    (* 33 *) ExprStmt(MatchExpr(IntLitExpr(1),                              \* match 1 { v if doom("boom") => 1, _ => 2 }
                <<MatchArm(GuardedPattern(IdentPattern("v"), DoomExpr(StringLitExpr("boom"))), IntLitExpr(1)),
                  MatchArm(WildcardPattern, IntLitExpr(2))>>)),
    (* 34 *) ExprStmt(ChantExpr(DoomExpr(StringLitExpr("chant")))),         \* chant doom("chant")
    (* 35 *) ExprStmt(SpawnExpr(BlockExpr(<<>>, <<DoomExpr(StringLitExpr("spawn"))>>))),  \* spawn { doom("spawn") }
    (* 36 *) ExprStmt(SpeakExpr(DoomExpr(StringLitExpr("speak")))),         \* speak doom("speak")
    (* 37 *) ExprStmt(GuardExpr(DoomExpr(StringLitExpr("guard")), IntLitExpr(1))),  \* guard doom("guard") else 1
    (* 38 *) ExprStmt(IfExpr(BoolLitExpr(TRUE),                             \* if true { doom("if") }
                BlockExpr(<<>>, <<DoomExpr(StringLitExpr("if"))>>), <<>>)),
    (* 39 *) ExprStmt(MatchExpr(IntLitExpr(1),                              \* match 1 { _ => doom("arm") }
                <<MatchArm(WildcardPattern, DoomExpr(StringLitExpr("arm")))>>)),
    \* ---- closures and parameters
    (* 40 *) FnDecl("mk", <<"n">>, 9),                                      \* fn mk(n) { fn(x) { x + n } }
    (* 41 *) LetStmt("add5", Call("mk", <<IntLitExpr(5)>>)),                \* let add5 = mk(5)
    (* 42 *) ExprStmt(SpeakExpr(Call("add5", <<IntLitExpr(10)>>))),         \* speak add5(10)
    (* 43 *) FnDecl("gy", <<>>, 11),                                        \* fn gy() { y }
    (* 44 *) FnDecl("fy", <<>>, 12),                                        \* fn fy() { let y = 1; gy() }
    (* 45 *) ExprStmt(SpeakExpr(Call("fy", <<>>))),                         \* speak fy()
    (* 46 *) LetStmt("y", IntLitExpr(9)),                                   \* let y = 9
    (* 47 *) FnDecl("two", <<"a", "b">>, 13),                               \* fn two(a, b) { speak a; speak b }
    (* 48 *) ExprStmt(Call("two", <<IntLitExpr(1)>>)),                      \* two(1)
    (* 49 *) ExprStmt(Call("two", <<IntLitExpr(1), IntLitExpr(2), SpeakExpr(IntLitExpr(3))>>)),  \* two(1, 2, speak 3)
    (* 50 *) FnDecl("dup", <<"a", "a">>, 14),                               \* fn dup(a, a) { a }
    (* 51 *) ExprStmt(SpeakExpr(Call("dup", <<IntLitExpr(1), IntLitExpr(2)>>))),  \* speak dup(1, 2)
    (* 52 *) ExternDecl("ext", <<"a">>),                                    \* extern fn ext(a)
    (* 53 *) ExprStmt(SpeakExpr(Call("ext", <<IntLitExpr(1)>>))),           \* speak ext(1)
    \* ---- arrays and maps under several names
    (* 54 *) LetStmt("a", ArrayLitExpr(<<IntLitExpr(1), IntLitExpr(2)>>)),  \* let a = [1, 2]
    (* 55 *) LetStmt("b", IdentExpr("a")),                                  \* let b = a
    (* 56 *) LetStmt("b", ArrayLitExpr(<<IntLitExpr(1), IntLitExpr(2)>>)),  \* let b = [1, 2]
    (* 57 *) ExprStmt(BlockExpr(                                            \* { b[1] = 9; speak a[1] }
                <<ExprStmt(IndexAssignExpr(IdentExpr("b"), IntLitExpr(1), IntLitExpr(9)))>>,
                <<SpeakExpr(IndexExpr(IdentExpr("a"), IntLitExpr(1)))>>)),
    (* 58 *) FnDecl("setf", <<"c">>, 15),                                   \* fn setf(c) { c[1] = 7 }
    (* 59 *) ExprStmt(BlockExpr(                                            \* { setf(a); speak a[1] }
                <<ExprStmt(Call("setf", <<IdentExpr("a")>>))>>,
                <<SpeakExpr(IndexExpr(IdentExpr("a"), IntLitExpr(1)))>>)),
    (* 60 *) FnDecl("cap", <<>>, 16),                                       \* fn cap() { a[1] = 8 }
    (* 61 *) ExprStmt(BlockExpr(                                            \* { cap(); speak b[1] }
                <<ExprStmt(Call("cap", <<>>))>>,
                <<SpeakExpr(IndexExpr(IdentExpr("b"), IntLitExpr(1)))>>)),
    (* 62 *) LetStmt("m", MapLitExpr(<<MapPair(StringLitExpr("k"), IntLitExpr(1))>>)),  \* let m = {"k": 1}
    (* 63 *) LetStmt("n", IdentExpr("m")),                                  \* let n = m
    (* 64 *) ExprStmt(BlockExpr(                                            \* { n.k = 5; speak m.k }
                <<ExprStmt(DotAssignExpr(IdentExpr("n"), "k", IntLitExpr(5)))>>,
                <<SpeakExpr(DotExpr(IdentExpr("m"), "k"))>>)),
    (* 65 *) FnDecl("setk", <<"c">>, 17),                                   \* fn setk(c) { c["k"] = 6 }
    (* 66 *) ExprStmt(BlockExpr(                                            \* { setk(m); speak m["k"] }
                <<ExprStmt(Call("setk", <<IdentExpr("m")>>))>>,
                <<SpeakExpr(IndexExpr(IdentExpr("m"), StringLitExpr("k")))>>)),
    (* 67 *) ExprStmt(SpeakExpr(Call("len", <<IdentExpr("a")>>))),          \* speak len(a)
    \* ---- operands that announce their evaluation
    (* 68 *) LetStmt("a", ArrayLitExpr(<<IntLitExpr(0), IntLitExpr(0)>>)),  \* let a = [0, 0]
    (* 69 *) LetStmt("m", MapLitExpr(<<MapPair(StringLitExpr("k"), IntLitExpr(0))>>)),  \* let m = {"k": 0}
    (* 70 *) DecreeStmt("ambitious_mode"),                                  \* decree "ambitious_mode"
    (* 71 *) ExprStmt(BinaryExpr(Told(1, IntLitExpr(1)), "+", Told(2, IntLitExpr(2)))),  \* {speak 1; 1} + {speak 2; 2}
    (* 72 *) ExprStmt(IndexAssignExpr(Told(1, IdentExpr("a")), Told(2, IntLitExpr(1)),   \* {speak 1; a}[{speak 2; 1}] = {speak 3; 9}
                                      Told(3, IntLitExpr(9)))),
    (* 73 *) ExprStmt(DotAssignExpr(Told(1, IdentExpr("m")), "k", Told(2, IntLitExpr(9)))),  \* {speak 1; m}.k = {speak 2; 9}
    (* 74 *) ExprStmt(ArrayLitExpr(<<Told(1, IntLitExpr(1)), Told(2, IntLitExpr(2)),     \* [{speak 1; 1}, {speak 2; 2}, {speak 3; 3}]
                                     Told(3, IntLitExpr(3))>>)),
    (* 75 *) ExprStmt(MapLitExpr(<<MapPair(Told(1, StringLitExpr("k")), Told(2, IntLitExpr(1))),  \* {{speak 1; "k"}: {speak 2; 1},
                                   MapPair(Told(3, StringLitExpr("j")), Told(4, IntLitExpr(2)))>>)),  \*  {speak 3; "j"}: {speak 4; 2}}
    (* 76 *) FnDecl("f", <<"x", "y">>, 18),                                 \* fn f(x, y) { speak 4 }
    (* 77 *) FnDecl("getf", <<>>, 19),                                      \* fn getf() { speak 1; f }
    (* 78 *) ExprStmt(CallExpr(Call("getf", <<>>),                          \* getf()({speak 2; 1}, {speak 3; 2})
                               <<Told(2, IntLitExpr(1)), Told(3, IntLitExpr(2))>>)),
    (* 79 *) ExprStmt(Call("f", <<Told(1, IntLitExpr(1)), Told(2, IntLitExpr(2))>>)),    \* f({speak 1; 1}, {speak 2; 2})
    (* 80 *) ExprStmt(BinaryExpr(IndexExpr(Told(1, IdentExpr("a")), Told(2, IntLitExpr(1))),  \* {speak 1; a}[{speak 2; 1}] == {speak 3; 7}
                                 "==", Told(3, IntLitExpr(7)))),
    (* 81 *) ExprStmt(BinaryExpr(DotExpr(Told(1, IdentExpr("m")), "k"),     \* {speak 1; m}.k == {speak 2; 7}
                                 "==", Told(2, IntLitExpr(7)))),
    \* ---- match
    (* 82 *) LetStmt("x", IntLitExpr(1)),                                   \* let x = 1
    (* 83 *) LetStmt("x", IntLitExpr(2)),                                   \* let x = 2
    (* 84 *) LetStmt("x", OkExpr(IntLitExpr(3))),                           \* let x = ok(3)
    (* 85 *) LetStmt("x", StringLitExpr("s")),                              \* let x = "s"
    (* 86 *) LetStmt("v", IntLitExpr(0)),                                   \* let v = 0
    (* 87 *) ExprStmt(MatchExpr(IdentExpr("x"),                             \* match x {
                <<MatchArm(LiteralPattern(IntLitExpr(1)), SpeakExpr(IntLitExpr(10))),           \*   1 => speak 10,
                  MatchArm(GuardedPattern(IdentPattern("v"),                                    \*   v if {speak 2; v == 2} => speak 30,
                                          Told(2, BinaryExpr(IdentExpr("v"), "==", IntLitExpr(2)))),
                           SpeakExpr(IntLitExpr(30))),
                  MatchArm(IdentPattern("ok(w)"), SpeakExpr(IdentExpr("w"))),                   \*   ok(w) => speak w,
                  MatchArm(GuardedPattern(WildcardPattern, Told(4, BoolLitExpr(FALSE))),        \*   _ if {speak 4; false} => speak 50 }
                           SpeakExpr(IntLitExpr(50)))>>)),
    (* 88 *) ExprStmt(MatchExpr(IntLitExpr(5),                              \* match 5 { v => v = 9, _ => speak 8 }
                <<MatchArm(IdentPattern("v"), AssignExpr("v", IntLitExpr(9))),
                  MatchArm(WildcardPattern, SpeakExpr(IntLitExpr(8)))>>)),
    (* 89 *) ExprStmt(SpeakExpr(IdentExpr("v"))),                           \* speak v
    (* 90 *) ExprStmt(SpeakExpr(IdentExpr("w"))),                           \* speak w
    (* 91 *) ExprStmt(MatchExpr(IdentExpr("x"),                             \* match x {
                <<MatchArm(WildcardPattern, SpeakExpr(IntLitExpr(7))),                          \*   _ => speak 7,
                  MatchArm(GuardedPattern(IdentPattern("v"), Told(2, BoolLitExpr(TRUE))),       \*   v if {speak 2; true} => speak 8,
                           SpeakExpr(IntLitExpr(8))),
                  MatchArm(WildcardPattern, SpeakExpr(IntLitExpr(9)))>>)),                      \*   _ => speak 9 }
    \* ---- guard in a function body
    (* 92 *) FnDecl("gf", <<>>, 20),
    (* 93 *) FnDecl("gt", <<>>, 21),
    (* 94 *) FnDecl("gd", <<>>, 22),
    (* 95 *) FnDecl("gn", <<>>, 23),
    (* 96 *) FnDecl("gm", <<>>, 24),
    (* 97 *) ExprStmt(SpeakExpr(Call("gf", <<>>))),                         \* speak gf()
    (* 98 *) ExprStmt(SpeakExpr(Call("gt", <<>>))),                         \* speak gt()
    (* 99 *) ExprStmt(SpeakExpr(Call("gd", <<>>))),                         \* speak gd()
    (* 100 *) ExprStmt(SpeakExpr(Call("gn", <<>>))),                        \* speak gn()
    (* 101 *) ExprStmt(SpeakExpr(Call("gm", <<>>))),                        \* speak gm()
    \* ---- the postfix ? on the value of y
    (* 102 *) LetStmt("y", OkExpr(IntLitExpr(3))),                          \* let y = ok(3)
    (* 103 *) LetStmt("y", ErrExpr(IntLitExpr(7))),                         \* let y = err(7)
    (* 104 *) LetStmt("y", NilLitExpr),                                     \* let y = nil
    (* 105 *) LetStmt("y", IntLitExpr(4)),                                  \* let y = 4
    (* 106 *) LetStmt("y", OkExpr(ErrExpr(IntLitExpr(1)))),                 \* let y = ok(err(1))
    (* 107 *) FnDecl("pe", <<>>, 25),                                       \* fn pe() { y?; speak 2; 8 }
    (* 108 *) FnDecl("pif", <<>>, 26),                                      \* fn pif() { if true { speak y? }; speak 2; 8 }
    (* 109 *) ExprStmt(SpeakExpr(Call("pe", <<>>))),                        \* speak pe()
    (* 110 *) ExprStmt(SpeakExpr(Call("pif", <<>>))),                       \* speak pif()
    (* 111 *) ExprStmt(SpeakExpr(PropagateExpr(IdentExpr("y")))),           \* speak y?
    \* ---- == under ambitious_mode, and the indexing base
    (* 112 *) ExprStmt(SpeakExpr(BinaryExpr(IdentExpr("x"), "==", IntLitExpr(5)))),   \* speak x == 5
    (* 113 *) ExprStmt(SpeakExpr(BinaryExpr(IdentExpr("x"), "==", IntLitExpr(0)))),   \* speak x == 0
    (* 114 *) ExprStmt(SpeakExpr(BinaryExpr(IndexExpr(IdentExpr("a"), IntLitExpr(1)), "==", IntLitExpr(7)))),  \* speak a[1] == 7
    (* 115 *) ExprStmt(SpeakExpr(BinaryExpr(IndexExpr(IdentExpr("m"), StringLitExpr("k")), "==", IntLitExpr(7)))),  \* speak m["k"] == 7
    (* 116 *) ExprStmt(SpeakExpr(BinaryExpr(DotExpr(IdentExpr("m"), "j"), "==", IntLitExpr(8)))),  \* speak m.j == 8
    (* 117 *) DecreeStmt("zero_indexed"),                                   \* decree "zero_indexed"
    (* 118 *) DecreeStmt("one_indexed"),                                    \* decree "one_indexed"
    (* 119 *) LetStmt("s", StringLitExpr("ab")),                            \* let s = "ab"
    (* 120 *) ExprStmt(SpeakExpr(IndexExpr(IdentExpr("a"), IntLitExpr(0)))),  \* speak a[0]
    (* 121 *) ExprStmt(SpeakExpr(IndexExpr(IdentExpr("a"), IntLitExpr(2)))),  \* speak a[2]
    (* 122 *) ExprStmt(IndexAssignExpr(IdentExpr("a"), IntLitExpr(2), IntLitExpr(9))),  \* a[2] = 9
    (* 123 *) ExprStmt(IndexAssignExpr(IdentExpr("a"), IntLitExpr(0), IntLitExpr(9))),  \* a[0] = 9
    (* 124 *) ExprStmt(SpeakExpr(IndexExpr(IdentExpr("s"), IntLitExpr(1)))),  \* speak s[1]
    (* 125 *) ExprStmt(SpeakExpr(IndexExpr(IdentExpr("m"), StringLitExpr("z")))),  \* speak m["z"]
    \* ---- == and != on ok and err
    (* 126 *) ExprStmt(SpeakExpr(BinaryExpr(OkExpr(IntLitExpr(1)), "==", OkExpr(IntLitExpr(1))))),  \* speak ok(1) == ok(1)
    (* 127 *) ExprStmt(SpeakExpr(BinaryExpr(OkExpr(IntLitExpr(1)), "==", OkExpr(IntLitExpr(2))))),  \* speak ok(1) == ok(2)
    (* 128 *) ExprStmt(SpeakExpr(BinaryExpr(ErrExpr(StringLitExpr("x")), "==", ErrExpr(StringLitExpr("x"))))),  \* speak err("x") == err("x")
    (* 129 *) ExprStmt(SpeakExpr(BinaryExpr(ErrExpr(StringLitExpr("x")), "==", ErrExpr(StringLitExpr("y"))))),  \* speak err("x") == err("y")
    (* 130 *) ExprStmt(SpeakExpr(BinaryExpr(OkExpr(IntLitExpr(1)), "==", ErrExpr(IntLitExpr(1))))),  \* speak ok(1) == err(1)
    (* 131 *) ExprStmt(SpeakExpr(BinaryExpr(OkExpr(IntLitExpr(1)), "!=", OkExpr(IntLitExpr(2))))),  \* speak ok(1) != ok(2)
    (* 132 *) ExprStmt(SpeakExpr(BinaryExpr(OkExpr(IntLitExpr(1)), "!=", OkExpr(IntLitExpr(1))))),  \* speak ok(1) != ok(1)
    (* 133 *) ExprStmt(SpeakExpr(BinaryExpr(ErrExpr(StringLitExpr("x")), "!=", ErrExpr(StringLitExpr("x"))))),  \* speak err("x") != err("x")
    (* 134 *) ExprStmt(SpeakExpr(BinaryExpr(OkExpr(IntLitExpr(1)), "!=", ErrExpr(IntLitExpr(1))))),  \* speak ok(1) != err(1)
    \* ---- no_forgiveness
    (* 135 *) DecreeStmt("no_forgiveness"),                                 \* decree "no_forgiveness"
    (* 136 *) ExprStmt(SpeakExpr(SorryExpr("x"))),                          \* speak sorry(x)
    (* 137 *) ExprStmt(SpeakExpr(SorryExpr("q"))),                          \* speak sorry(q)
    \* ---- spawn and await_all
    (* 138 *) LetStmt("n", IntLitExpr(0)),                                  \* let n = 0
    (* 139 *) ExprStmt(SpawnExpr(BlockExpr(<<ExprStmt(SpeakExpr(StringLitExpr("a"))),
                                             ExprStmt(AssignExpr("n", IntLitExpr(1))),
                                             ExprStmt(SpeakExpr(IdentExpr("n")))>>, <<>>))),
                                                                            \* spawn { speak "a"; n = 1; speak n; }
    (* 140 *) ExprStmt(SpawnExpr(BlockExpr(<<ExprStmt(SpeakExpr(StringLitExpr("b"))),
                                             ExprStmt(AssignExpr("n", IntLitExpr(2)))>>, <<>>))),
                                                                            \* spawn { speak "b"; n = 2; }
    (* 141 *) ExprStmt(SpeakExpr(IdentExpr("n"))),                          \* speak n
    (* 142 *) ExprStmt(SpeakExpr(SpawnExpr(BlockExpr(<<>>, <<AssignExpr("n", IntLitExpr(3))>>)))),
                                                                            \* speak spawn { n = 3 }
    (* 143 *) ExprStmt(SpeakExpr(AwaitAllExpr)),                            \* speak await_all
    (* 144 *) ExprStmt(AwaitAllExpr),                                       \* await_all
    (* 145 *) ExprStmt(BlockExpr(<<ExprStmt(SpawnExpr(BlockExpr(<<ExprStmt(SpeakExpr(StringLitExpr("a"))),
                                                                 ExprStmt(AssignExpr("n", IntLitExpr(1)))>>, <<>>))),
                                   ExprStmt(SpawnExpr(BlockExpr(<<ExprStmt(SpeakExpr(IdentExpr("n"))),
                                                                 ExprStmt(AssignExpr("n", IntLitExpr(2)))>>, <<>>))),
                                   ExprStmt(AwaitAllExpr),
                                   ExprStmt(SpeakExpr(IdentExpr("n")))>>, <<>>))
                    \* { spawn { speak "a"; n = 1; }; spawn { speak n; n = 2; }; await_all; speak n; }
        ,
    \* ---- calls of the built-in names
    (* 146 *) LetStmt("len", IntLitExpr(5)),                                \* let len = 5
    (* 147 *) FnDecl("len", <<"a">>, 27),                                   \* fn len(a) { speak "user"; 0 }
    (* 148 *) FnDecl("free", <<"a">>, 27),                                  \* fn free(a) { speak "user"; 0 }
    (* 149 *) LetStmt("read", IntLitExpr(1)),                               \* let read = 1
    (* 150 *) ExprStmt(SpeakExpr(Call("len", <<Told(1, StringLitExpr("ab"))>>))),     \* speak len({speak 1; "ab"})
    (* 151 *) ExprStmt(SpeakExpr(Call("malloc", <<Told(1, IntLitExpr(1))>>))),        \* speak malloc({speak 1; 1})
    (* 152 *) ExprStmt(SpeakExpr(Call("free", <<IntLitExpr(1)>>))),         \* speak free(1)
    (* 153 *) ExprStmt(SpeakExpr(Call("read", <<>>))),                      \* speak read()
    (* 154 *) ExprStmt(SpeakExpr(Call("write", <<IntLitExpr(1)>>))),        \* speak write(1)
    (* 155 *) ExprStmt(SpeakExpr(Call("read_file", <<StringLitExpr("f")>>))),         \* speak read_file("f")
    (* 156 *) ExprStmt(SpeakExpr(Call("parse_toml", <<StringLitExpr("t")>>))),        \* speak parse_toml("t")
    (* 157 *) ExprStmt(Call("len", <<DoomExpr(StringLitExpr("arg"))>>)),    \* len(doom("arg"))
    \* ---- declaring a name again
    (* 158 *) ConstStmt("x", IntLitExpr(3))                                 \* const x = 3
>>

\* The vocabularies programs are drawn from: a program uses the items of one suite.
Suites == <<
    {1, 2, 3, 4, 5, 6, 7, 8, 9, 10, 11, 12, 13},
    {14, 15, 16, 17, 18, 19, 20, 21, 22, 23, 24, 25},
    {26, 27, 28, 29, 30, 31, 32, 33, 34, 35, 36, 37, 38, 39},
    {40, 41, 42, 43, 44, 45, 46, 47, 48, 49, 50, 51, 52, 53},
    {54, 55, 56, 57, 58, 59, 60, 61, 62, 63, 64, 65, 66, 67},
    {68, 69, 70, 71, 72, 73, 74, 75, 76, 77, 78, 79, 80, 81},
    {82, 83, 84, 85, 86, 87, 88, 89, 90, 91},
    {92, 93, 94, 95, 96, 97, 98, 99, 100, 101},
    {18, 24, 102, 103, 104, 105, 106, 107, 108, 109, 110, 111},
    {1, 2, 54, 62, 70, 112, 113, 114, 115, 116, 117},
    {54, 62, 117, 118, 119, 120, 121, 122, 123, 124, 125},
    {126, 127, 128, 129, 130, 131, 132, 133, 134},
    {1, 2, 3, 4, 5, 6, 10, 11, 70, 112, 135, 136, 137},
    {35, 138, 139, 140, 141, 142, 143, 144, 145},
    {146, 147, 148, 149, 150, 151, 152, 153, 154, 155, 156, 157},
    {1, 2, 3, 4, 6, 9, 8, 12, 158}
>>

\* The longest program Eval is run on.
MaxItems == 3

(***************************************************************************)
(* Eval (eval.go:66-89): one action per iteration of the loop over          *)
(* program.Items, one for the return after the loop.                       *)
(***************************************************************************)
\* The evaluator as the walker's state record.
S == [env |-> env, envs |-> envs, binds |-> binds, decrees |-> decrees, output |-> output,
      raised |-> raised, calls |-> calls, matches |-> matches, heap |-> heap, weekend |-> weekend,
      depth |-> 0]

\* The suites whose programs reach adjustIndex, the one reader of the clock.
ClockSuites == {5, 6}

\* time.Now().Weekday() is a day of the weekend or not; the day does not change
\* during a run.
ClockInit == weekend \in (IF suite \in ClockSuites THEN BOOLEAN ELSE {FALSE})

\* Nothing but the evaluator or the lexer runs.
RestInit ==
    /\ commentDepth = 0
    /\ skipping = FALSE
    /\ omap = NewOrderedMap
    /\ setlog = <<>>
    /\ cursor = 0
    /\ errors = <<>>
    /\ progItems = <<>>
    /\ iterations = 0
    /\ parsing = "idle"
    /\ parser = [curToken |-> [Type |-> "INT", Literal |-> "", Line |-> 0, Col |-> 0],
                 peekToken |-> [Type |-> "INT", Literal |-> "", Line |-> 0, Col |-> 0],
                 buffered |-> <<>>]
    /\ placed = <<>>
    /\ peeked = [n |-> 0, tok |-> [Type |-> "INT", Literal |-> "", Line |-> 0, Col |-> 0]]

\* New() (eval.go:52-58): a global environment, default decrees, no output.
EvalInit ==
    /\ env = 1
    /\ envs = <<[bindings |-> NoBindings, parent |-> 0]>>
    /\ binds = <<>>
    /\ decrees = NewDecreeConfig
    /\ output = <<>>
    /\ raised = <<>>
    /\ calls = <<>>
    /\ matches = <<>>
    /\ heap = <<>>
    /\ program = <<>>
    /\ result = <<>>
    /\ err = NoErr
    /\ status = "running"

\* A variant of unhandled: a return signal that reaches the item loop is handed to Eval's caller.
unhandledButReturn(e) ==
    CASE e.kind = "guard"     -> DoomError("unhandled guard return: " \o String(e.value))
      [] e.kind = "propagate" -> DoomError("unhandled error propagation: " \o String(e.value))
      [] OTHER                -> e

\* The conversion of a signal that reached the item loop (eval.go:70-81).
unhandled(e) ==
    CASE e.kind = "guard"     -> DoomError("unhandled guard return: " \o String(e.value))
      [] e.kind = "propagate" -> DoomError("unhandled error propagation: " \o String(e.value))
      [] e.kind = "return"    -> DoomError("return outside function")
      [] OTHER                -> e

\* The body of the loop once evalItem has returned r (eval.go:70-83).
EvalItemDone(i, r) ==
    /\ env' = r.s.env
    /\ envs' = r.s.envs
    /\ binds' = r.s.binds
    /\ decrees' = r.s.decrees
    /\ output' = r.s.output
    /\ raised' = r.s.raised
    /\ calls' = r.s.calls
    /\ matches' = r.s.matches
    /\ heap' = r.s.heap
    /\ program' = Append(program, i)
    /\ IF IsErr(r)
       THEN result' = <<>> /\ err' = unhandled(r.err) /\ status' = "returned"
       ELSE result' = <<r.val>> /\ err' = NoErr /\ status' = "running"

EvalItem(i) ==
    /\ status = "running"
    /\ Len(program) < MaxItems
    /\ i \in Suites[suite]
    /\ EvalItemDone(i, evalItem(Items[i], S))
    /\ UNCHANGED <<weekend, suite, lexVars, restVars>>

EvalReturn ==
    /\ status = "running"
    /\ status' = "returned"
    /\ result' = IF result = <<>> THEN <<NilVal>> ELSE result
    /\ UNCHANGED <<env, envs, binds, decrees, output, raised, calls, matches, heap, weekend, suite, program, err,
                   lexVars, restVars>>

(***************************************************************************)
(* Tokens (token package, token_test.go:117-336).  A token kind is the     *)
(* name of its TokenType constant.                                         *)
(***************************************************************************)
Token(tt, literal, ln, cl) == [Type |-> tt, Literal |-> literal, Line |-> ln, Col |-> cl]

LookupIdent(ident) ==
    CASE ident = "let" -> "LET"       [] ident = "const" -> "CONST"   [] ident = "fn" -> "FN"
      [] ident = "return" -> "RETURN" [] ident = "if" -> "IF"         [] ident = "else" -> "ELSE"
      [] ident = "match" -> "MATCH"   [] ident = "guard" -> "GUARD"   [] ident = "doom" -> "DOOM"
      [] ident = "ok" -> "OK"         [] ident = "err" -> "ERR"       [] ident = "nil" -> "NIL"
      [] ident = "true" -> "TRUE"     [] ident = "false" -> "FALSE"   [] ident = "ref" -> "REF"
      [] ident = "extern" -> "EXTERN" [] ident = "spawn" -> "SPAWN"   [] ident = "await_all" -> "AWAIT_ALL"
      [] ident = "decree" -> "DECREE" [] ident = "chant" -> "CHANT"   [] ident = "sorry" -> "SORRY"
      [] ident = "speak" -> "SPEAK"   [] ident = "and" -> "AND"       [] ident = "or" -> "OR"
      [] ident = "as" -> "AS"
      [] OTHER -> "IDENT"

\* SemicolonTrigger with SEMICOLON added to its cases.
SemicolonTriggerOrSemicolon(t) ==
    t \in {"INT", "FLOAT", "STRING", "IDENT", "TRUE", "FALSE", "NIL", "RPAREN", "RBRACKET",
           "RBRACE", "QUESTION", "OK", "ERR", "SEMICOLON"}

SemicolonTrigger(t) ==
    t \in {"INT", "FLOAT", "STRING", "IDENT", "TRUE", "FALSE", "NIL", "RPAREN", "RBRACKET",
           "RBRACE", "QUESTION", "OK", "ERR"}

statementStarters == {"LET", "CONST", "FN", "MATCH", "IF", "GUARD", "RETURN", "DECREE", "SPAWN"}

StartsStatement(t) == t \in statementStarters

(***************************************************************************)
(* Lexer (lexer package, decree.go:514-963).  The input is a sequence of   *)
(* bytes, a byte being a one-character string; NUL is the byte 0.  A lexer *)
(* is the record l of the fields of the Go struct.                         *)
(***************************************************************************)
NUL == "NUL"

isDigit(c) == c \in {"0", "1", "2", "3", "4", "5", "6", "7", "8", "9"}

isHexDigit(c) == isDigit(c) \/ c \in {"a", "b", "c", "d", "e", "f", "A", "B", "C", "D", "E", "F"}

isLetter(c) ==
    c \in {"a", "b", "c", "d", "e", "f", "g", "h", "i", "j", "k", "l", "m", "n", "o", "p", "q",
           "r", "s", "t", "u", "v", "w", "x", "y", "z",
           "A", "B", "C", "D", "E", "F", "G", "H", "I", "J", "K", "L", "M", "N", "O", "P", "Q",
           "R", "S", "T", "U", "V", "W", "X", "Y", "Z", "_"}

readChar(l) ==
    [l EXCEPT !.ch = IF l.readPos >= Len(l.input) THEN NUL ELSE l.input[l.readPos + 1],
              !.pos = l.readPos,
              !.readPos = l.readPos + 1,
              !.col = l.col + 1]

peekChar(l) == IF l.readPos >= Len(l.input) THEN NUL ELSE l.input[l.readPos + 1]

peekCharAt(l, offset) ==
    IF l.readPos + offset >= Len(l.input) THEN NUL ELSE l.input[l.readPos + offset + 1]

New(in) ==
    readChar([input |-> in, pos |-> 0, readPos |-> 0, ch |-> NUL, line |-> 1, col |-> 0,
              lastToken |-> Token("EOF", "", 0, 0), pendingSemicolon |-> <<>>])

\* l.input[from:to] as a string
RECURSIVE Slice(_, _, _)
Slice(in, from, to) == IF from >= to THEN "" ELSE in[from + 1] \o Slice(in, from + 1, to)

RECURSIVE skipLineComment(_)
skipLineComment(l) ==
    IF l.ch # "\n" /\ l.ch # NUL THEN skipLineComment(readChar(l)) ELSE l

\* The loop of skipBlockComment (decree.go:615-636).
RECURSIVE blockCommentLoop(_, _)
blockCommentLoop(l, depth) ==
    IF ~(depth > 0 /\ l.ch # NUL) THEN l
    ELSE IF l.ch = "#" /\ peekChar(l) = "{"
    THEN (IF depth < 2 THEN blockCommentLoop(readChar(readChar(l)), depth + 1)
          ELSE blockCommentLoop(readChar(l), depth))
    ELSE IF l.ch = "}" /\ peekChar(l) = "#"
    THEN blockCommentLoop(readChar(readChar(l)), depth - 1)
    ELSE blockCommentLoop(readChar(IF l.ch = "\n" THEN [l EXCEPT !.line = @ + 1, !.col = 0] ELSE l), depth)

skipBlockComment(l) == blockCommentLoop(readChar(readChar(l)), 1)

\* A variant of skipLoop: a newline resets the column and leaves the line as it is.
RECURSIVE skipLoopSameLine(_, _)
skipLoopSameLine(l, sawNewline) ==
    CASE l.ch \in {" ", "\t", "\r"} -> skipLoopSameLine(readChar(l), sawNewline)
      [] l.ch = "\n" -> skipLoopSameLine(readChar([l EXCEPT !.col = 0]), TRUE)
      [] l.ch = "#"  -> (IF peekChar(l) = "{" THEN skipLoopSameLine(skipBlockComment(l), sawNewline)
                         ELSE skipLoopSameLine(skipLineComment(l), sawNewline))
      [] OTHER -> [l |-> l, sawNewline |-> sawNewline]

\* The loop of skipWhitespaceAndComments, sawNewline being its local.
RECURSIVE skipLoop(_, _)
skipLoop(l, sawNewline) ==
    CASE l.ch \in {" ", "\t", "\r"} -> skipLoop(readChar(l), sawNewline)
      [] l.ch = "\n" -> skipLoop(readChar([l EXCEPT !.line = @ + 1, !.col = 0]), TRUE)
      [] l.ch = "#"  -> (IF peekChar(l) = "{" THEN skipLoop(skipBlockComment(l), sawNewline)
                         ELSE skipLoop(skipLineComment(l), sawNewline))
      [] OTHER -> [l |-> l, sawNewline |-> sawNewline]

skipWhitespaceAndComments(l) == skipLoop(l, FALSE)

makeToken(l, tt, literal) == Token(tt, literal, l.line, l.col)

\* The loop of readString (decree.go:857-884), sb being the strings.Builder.
\* The byte 0 written for the escape \0 is shown as NUL.
RECURSIVE readStringLoop(_, _)
readStringLoop(l, sb) ==
    IF ~(l.ch # "\"" /\ l.ch # NUL) THEN [l |-> l, sb |-> sb]
    ELSE IF l.ch = "\\"
    THEN LET l1 == readChar(l)
             piece == CASE l1.ch = "n" -> "\n"
                        [] l1.ch = "t" -> "\t"
                        [] l1.ch = "0" -> NUL
                        [] l1.ch = "\"" -> "\""
                        [] l1.ch = "\\" -> "\\"
                        [] OTHER -> "\\" \o l1.ch IN
         readStringLoop(readChar(l1), sb \o piece)
    ELSE readStringLoop(readChar(IF l.ch = "\n" THEN [l EXCEPT !.line = @ + 1, !.col = 0] ELSE l), sb \o l.ch)

readString(l) ==
    LET r == readStringLoop(readChar(l), "") IN
    IF r.l.ch = "\"" THEN [l |-> readChar(r.l), lit |-> r.sb, ok |-> TRUE]
    ELSE [l |-> r.l, lit |-> r.sb, ok |-> FALSE]

RECURSIVE skipHexDigits(_)
skipHexDigits(l) == IF isHexDigit(l.ch) \/ l.ch = "_" THEN skipHexDigits(readChar(l)) ELSE l

RECURSIVE skipDigits(_)
skipDigits(l) == IF isDigit(l.ch) \/ l.ch = "_" THEN skipDigits(readChar(l)) ELSE l

readNumber(l) ==
    IF l.ch = "0" /\ peekChar(l) \in {"x", "X"}
    THEN LET l1 == skipHexDigits(readChar(readChar(l))) IN
         [l |-> l1, tt |-> "INT", lit |-> Slice(l.input, l.pos, l1.pos)]
    ELSE LET l1 == skipDigits(l) IN
         IF l1.ch = "." /\ isDigit(peekChar(l1))
         THEN LET l2 == skipDigits(readChar(l1)) IN
              [l |-> l2, tt |-> "FLOAT", lit |-> Slice(l.input, l.pos, l2.pos)]
         ELSE [l |-> l1, tt |-> "INT", lit |-> Slice(l.input, l.pos, l1.pos)]

RECURSIVE skipIdentChars(_)
skipIdentChars(l) == IF isLetter(l.ch) \/ isDigit(l.ch) THEN skipIdentChars(readChar(l)) ELSE l

readIdentifier(l) ==
    LET l1 == skipIdentChars(l) IN [l |-> l1, lit |-> Slice(l.input, l.pos, l1.pos)]

\* The loop of nextTokenStartsStatement (decree.go:944-947).
RECURSIVE identEnd(_, _)
identEnd(in, end) ==
    IF end < Len(in) /\ (isLetter(in[end + 1]) \/ isDigit(in[end + 1])) THEN identEnd(in, end + 1) ELSE end

nextTokenStartsStatement(l) ==
    IF l.ch = NUL THEN TRUE
    ELSE IF ~isLetter(l.ch) THEN FALSE
    ELSE StartsStatement(LookupIdent(Slice(l.input, l.pos, identEnd(l.input, l.pos))))

\* The one-character tokens of NextToken's switch (decree.go:688-754).
singleKind(c) ==
    CASE c = "+" -> "PLUS"     [] c = "-" -> "MINUS"    [] c = "*" -> "STAR"     [] c = "/" -> "SLASH"
      [] c = "%" -> "PERCENT"  [] c = "&" -> "AMP"      [] c = "(" -> "LPAREN"   [] c = ")" -> "RPAREN"
      [] c = "[" -> "LBRACKET" [] c = "]" -> "RBRACKET" [] c = "{" -> "LBRACE"   [] c = "}" -> "RBRACE"
      [] c = "," -> "COMMA"    [] c = ";" -> "SEMICOLON" [] c = ":" -> "COLON"   [] c = "." -> "DOT"
      [] c = "?" -> "QUESTION" [] OTHER -> ""

\* What a call of NextToken returns and leaves: the lexer, the token, and whether
\* the token is a semicolon the lexer made up.
Emit(l, tok, synthetic) == [l |-> [l EXCEPT !.lastToken = tok], tok |-> tok, synthetic |-> synthetic]

\* The switch of NextToken (decree.go:669-829).
scanToken(l) ==
    CASE l.ch = NUL ->
            (IF SemicolonTrigger(l.lastToken.Type)
             THEN Emit(l, Token("SEMICOLON", ";", l.line, l.col), TRUE)
             ELSE Emit(l, Token("EOF", "", l.line, l.col), FALSE))
      [] singleKind(l.ch) # "" -> Emit(readChar(l), makeToken(l, singleKind(l.ch), l.ch), FALSE)
      [] l.ch = "=" ->
            (IF peekChar(l) = "=" /\ peekCharAt(l, 1) = "="
             THEN Emit(readChar(readChar(readChar(l))), makeToken(l, "STRICT_EQ", "==="), FALSE)
             ELSE IF peekChar(l) = "=" THEN Emit(readChar(readChar(l)), makeToken(l, "EQ", "=="), FALSE)
             ELSE IF peekChar(l) = ">" THEN Emit(readChar(readChar(l)), makeToken(l, "ARROW", "=>"), FALSE)
             ELSE Emit(readChar(l), makeToken(l, "ASSIGN", "="), FALSE))
      [] l.ch = "!" ->
            (IF peekChar(l) = "=" THEN Emit(readChar(readChar(l)), makeToken(l, "NEQ", "!="), FALSE)
             ELSE Emit(readChar(l), makeToken(l, "BANG", "!"), FALSE))
      [] l.ch = "<" ->
            (IF peekChar(l) = "=" THEN Emit(readChar(readChar(l)), makeToken(l, "LTE", "<="), FALSE)
             ELSE Emit(readChar(l), makeToken(l, "LT", "<"), FALSE))
      [] l.ch = ">" ->
            (IF peekChar(l) = "=" THEN Emit(readChar(readChar(l)), makeToken(l, "GTE", ">="), FALSE)
             ELSE Emit(readChar(l), makeToken(l, "GT", ">"), FALSE))
      [] l.ch = "\"" ->
            (LET r == readString(l) IN
             Emit(r.l, Token(IF r.ok THEN "STRING" ELSE "ILLEGAL", r.lit, l.line, l.col), FALSE))
      [] isDigit(l.ch) ->
            (LET r == readNumber(l) IN Emit(r.l, Token(r.tt, r.lit, l.line, l.col), FALSE))
      [] isLetter(l.ch) ->
            (LET r == readIdentifier(l) IN Emit(r.l, Token(LookupIdent(r.lit), r.lit, l.line, l.col), FALSE))
      [] OTHER -> Emit(readChar(l), makeToken(l, "ILLEGAL", l.ch), FALSE)

RECURSIVE NextToken(_)
NextToken(l) ==
    IF l.pendingSemicolon # <<>>
    THEN Emit([l EXCEPT !.pendingSemicolon = <<>>], l.pendingSemicolon[1], TRUE)
    ELSE LET sk == skipWhitespaceAndComments(l)
             l1 == sk.l IN
         IF sk.sawNewline /\ SemicolonTrigger(l1.lastToken.Type)
            /\ (l1.ch = NUL \/ nextTokenStartsStatement(l1))
         THEN NextToken([l1 EXCEPT !.pendingSemicolon = <<Token("SEMICOLON", ";", l1.line, l1.col)>>])
         ELSE scanToken(l1)

(***************************************************************************)
(* Tokenize (decree.go:833-843): one action per call of NextToken.         *)
(***************************************************************************)
\* The lexer as a record.
L == [input |-> input, pos |-> pos, readPos |-> readPos, ch |-> ch, line |-> line, col |-> col,
      lastToken |-> lastToken, pendingSemicolon |-> pendingSemicolon]

\* The pieces of source text inputs are made of.
Chunks == {<<"1">>, <<"x">>, <<"i", "f">>, <<"\n">>, <<" ">>, <<";">>, <<"#">>,
           <<"#", "{", "\n", "}", "#">>}

\* The most pieces in an input.
MaxChunks == 4

RECURSIVE Concat(_)
Concat(seqs) == IF seqs = <<>> THEN <<>> ELSE Head(seqs) \o Concat(Tail(seqs))

Inputs == {Concat(cs) : cs \in UNION {[1..n -> Chunks] : n \in 0..MaxChunks}}

LexerIs(l) ==
    /\ input = l.input
    /\ pos = l.pos
    /\ readPos = l.readPos
    /\ ch = l.ch
    /\ line = l.line
    /\ col = l.col
    /\ lastToken = l.lastToken
    /\ pendingSemicolon = l.pendingSemicolon

\* The kind of the token that follows the whitespace and comments at l.
upcoming(l) ==
    LET l1 == skipWhitespaceAndComments(l).l IN
    IF l1.ch = NUL THEN "EOF" ELSE scanToken(l1).tok.Type

\* A variant of Tokenize: the loop goes on after EOF.
TokenizeNoBreak ==
    /\ LET r == NextToken(L) IN
        /\ input' = r.l.input /\ pos' = r.l.pos /\ readPos' = r.l.readPos /\ ch' = r.l.ch
        /\ line' = r.l.line /\ col' = r.l.col
        /\ lastToken' = r.l.lastToken /\ pendingSemicolon' = r.l.pendingSemicolon
        /\ tokens' = Append(tokens, r.tok)
        /\ lexlog' = Append(lexlog, [last |-> lastToken.Type, sawNewline |-> FALSE, crossed |-> FALSE,
                                     up |-> upcoming(L), synthetic |-> r.synthetic])
    /\ UNCHANGED <<evalVars, restVars>>

\* for { tok := l.NextToken(); tokens = append(tokens, tok); if tok.Type == token.EOF { break } }
\* lexlog records what the call met: the kind of the token emitted before it, whether
\* skipWhitespaceAndComments reported a newline, whether the line number grew while
\* skipping, the kind of the upcoming token, and whether the token returned is synthetic.
Tokenize ==
    /\ IF tokens = <<>> THEN TRUE ELSE tokens[Len(tokens)].Type # "EOF"
    /\ LET r  == NextToken(L)
           sk == skipWhitespaceAndComments(L) IN
        /\ input' = r.l.input
        /\ pos' = r.l.pos
        /\ readPos' = r.l.readPos
        /\ ch' = r.l.ch
        /\ line' = r.l.line
        /\ col' = r.l.col
        /\ lastToken' = r.l.lastToken
        /\ pendingSemicolon' = r.l.pendingSemicolon
        /\ tokens' = Append(tokens, r.tok)
        /\ lexlog' = Append(lexlog, [last |-> lastToken.Type, sawNewline |-> sk.sawNewline,
                                     crossed |-> sk.l.line > line, up |-> upcoming(L),
                                     synthetic |-> r.synthetic])
    /\ UNCHANGED <<evalVars, restVars>>

(***************************************************************************)
(* Specifications                                                          *)
(***************************************************************************)
\* A new Evaluator, about to run a program of one of the suites.
Start ==
    /\ EvalInit
    /\ RestInit
    /\ suite \in 1..Len(Suites)
    /\ ClockInit
    /\ LexerIs(New(<<>>))
    /\ tokens = <<>>
    /\ lexlog = <<>>

\* The suites of scopes, signals, calls, containers, evaluation order, match,
\* guard and the postfix ?.
GeneralSuites == 1..9

\* Eval run on every program of at most MaxItems items of one of these suites.
Init == Start /\ suite \in GeneralSuites

Next == (\E i \in 1..Len(Items) : EvalItem(i)) \/ EvalReturn

Spec == Init /\ [][Next]_vars

\* Tokenize run on every input of at most MaxChunks pieces.
LexInit ==
    /\ EvalInit
    /\ RestInit
    /\ suite = 1
    /\ ClockInit
    /\ \E in \in Inputs : LexerIs(New(in))
    /\ tokens = <<>>
    /\ lexlog = <<>>

LexNext == Tokenize

LexSpec == LexInit /\ [][LexNext]_vars

(***************************************************************************)
(* Properties of environments                                              *)
(***************************************************************************)
\* Every Env ever allocated: the global scope and every block, call, match-arm
\* and guard scope of the run so far.
Scopes == 1..Len(envs)

\* Every name bound in some scope.
BoundNames == UNION {DOMAIN envs[e].bindings : e \in Scopes}

\* The scopes from e up to the global scope.
RECURSIVE Chain(_)
Chain(e) == IF e = 0 THEN <<>> ELSE <<e>> \o Chain(envs[e].parent)

\* The binding an access to name from scope e reaches: that of the first scope of
\* the chain that holds the name (0: none does).
Nearest(e, name) ==
    LET c == Chain(e)
        hits == {k \in 1..Len(c) : name \in DOMAIN envs[c[k]].bindings} IN
    IF hits = {} THEN 0
    ELSE envs[c[CHOOSE k \in hits : \A j \in hits : k <= j]].bindings[name]

From(e) == [S EXCEPT !.env = e]

Last(seq) == seq[Len(seq)]

\* The item the step just taken evaluated (0: the step evaluated none).
Evaluated == IF program' # program THEN Last(program') ELSE 0

\* C1 in a state: from every scope e and for every name whose nearest binding b is
\* a const, the assignment `name = 42` dooms with "cannot reassign const" and
\* changes no binding while b is unforgiven, and succeeds and sets b's value
\* once b is forgiven; sorry(name) evaluated in the scope holding b forgives it.
C1State ==
    \A e \in Scopes : \A n \in BoundNames :
        LET b == Nearest(e, n)
            r == evalAssignExpr(AssignExpr(n, IntLitExpr(42)), From(e)) IN
        (b # 0 /\ binds[b].IsConst) =>
            /\ ~binds[b].Forgiven =>
                  /\ r.err = DoomError("cannot reassign const: " \o n)
                  /\ r.s.binds = binds
            /\ binds[b].Forgiven =>
                  /\ r.err = NoErr
                  /\ r.s.binds = [binds EXCEPT ![b].Value = IntVal(42)]
                  /\ evalIdentExpr(IdentExpr(n), r.s).val = IntVal(42)
            /\ (n \in DOMAIN envs[e].bindings /\ ~decrees.NoForgiveness) =>
                  LET f == evalSorryExpr(SorryExpr(n), From(e)) IN
                  /\ f.val = OkVal(NilVal)
                  /\ f.s.binds = [binds EXCEPT ![b].Forgiven = TRUE]

\* C1: a const binding that is not forgiven rejects every assignment to its name,
\* from its own scope and from every descendant scope that does not shadow it,
\* with a doom that leaves its value unchanged; once sorry has forgiven it, every
\* later assignment succeeds and updates the value.  In every step of Eval: the
\* const and forgiven flags of a binding never revert, the items `x = 3`,
\* `{ x = 4 }` and `set()` doom on a const unforgiven x and leave every binding as
\* it was, and C1State holds after the step.
C1_ConstUntilForgiven ==
    [][/\ \A b \in 1..Len(binds) :
            /\ binds'[b].IsConst = binds[b].IsConst
            /\ binds[b].Forgiven => binds'[b].Forgiven
       /\ (Evaluated \in {3, 6, 9} /\ Nearest(1, "x") # 0 /\ (Evaluated = 9 => Nearest(1, "set") # 0)) =>
            LET b == Nearest(1, "x") IN
            IF binds[b].IsConst /\ ~binds[b].Forgiven
            THEN err' = DoomError("cannot reassign const: x") /\ binds' = binds
            ELSE err' = NoErr /\ binds'[b].Value = IntVal(CASE Evaluated = 3 -> 3 [] Evaluated = 6 -> 4 [] OTHER -> 7)
       /\ C1State']_vars

\* C1 witness: a const x was forgiven by sorry and then assigned a new value.
C1_Witness ==
    \E b \in 1..Len(binds) :
        /\ binds[b].IsConst /\ binds[b].Forgiven /\ binds[b].Value # IntVal(1)
        /\ Nearest(1, "x") = b

NotFound(n) == ErrVal(StrVal("sorry: " \o n \o " not found in current scope"))

\* C2 in a state: sorry(name) evaluated in a scope that holds no binding of the
\* name yields an err value and changes no binding and no scope, whatever the
\* ancestors hold; an ancestor's const binding of the name stays unforgiven and
\* the assignment that follows still dooms.
C2State ==
    \A e \in Scopes : \A n \in BoundNames :
        n \notin DOMAIN envs[e].bindings =>
            LET f == evalSorryExpr(SorryExpr(n), From(e))
                b == Nearest(e, n) IN
            /\ f.err = NoErr
            /\ f.val.Kind = "ValErr"
            /\ ~decrees.NoForgiveness => f.val = NotFound(n)
            /\ f.s = From(e)
            /\ (b # 0 /\ binds[b].IsConst /\ ~binds[b].Forgiven) =>
                  evalAssignExpr(AssignExpr(n, IntLitExpr(42)), f.s).err = DoomError("cannot reassign const: " \o n)

\* C2: sorry never ascends the scope chain.  In every step of Eval: `{ sorry x }`
\* and `fg()` (fn fg() { sorry x }), which evaluate sorry in a nested block and in a
\* function body, yield the err value and leave every binding as it was, and
\* C2State holds after the step.
C2_SorryNeverAscends ==
    [][/\ (Evaluated = 5 \/ (Evaluated = 11 /\ Nearest(1, "fg") # 0)) =>
            /\ err' = NoErr
            /\ result' = <<NotFound("x")>>
            /\ binds' = binds
       /\ C2State']_vars

\* C2 witness: sorry x was evaluated in an inner scope while the global scope held
\* a const x, which is still unforgiven.
C2_Witness ==
    /\ program # <<>> /\ Last(program) \in {5, 11}
    /\ result = <<NotFound("x")>>
    /\ Nearest(1, "x") # 0 /\ binds[Nearest(1, "x")].IsConst /\ ~binds[Nearest(1, "x")].Forgiven
    /\ \E e \in Scopes : e # 1 /\ "x" \notin DOMAIN envs[e].bindings /\ Nearest(e, "x") = Nearest(1, "x")

(***************************************************************************)
(* C6                                                                      *)
(***************************************************************************)
\* C6 in a state, for every scope e and name n (bound somewhere or nowhere):
\* Define changes only the binding of n in e; Get and Set reach the nearest
\* binding of n; with n bound nowhere along the chain they fail with "undefined
\* variable" and change nothing.
C6State ==
    \A e \in Scopes : \A n \in BoundNames \cup {"nowhere"} :
        LET b  == Nearest(e, n)
            d  == Define(S, e, n, IntVal(42), FALSE)
            g  == Get(S, e, n)
            st == Set(S, e, n, IntVal(42)) IN
        /\ \A e2 \in Scopes \ {e} : d.envs[e2] = envs[e2]
        /\ d.envs[e].parent = envs[e].parent
        /\ DOMAIN d.envs[e].bindings = DOMAIN envs[e].bindings \cup {n}
        /\ \A m \in DOMAIN envs[e].bindings \ {n} : d.envs[e].bindings[m] = envs[e].bindings[m]
        /\ SubSeq(d.binds, 1, Len(binds)) = binds
        /\ Get(d, e, n) = [val |-> IntVal(42), error |-> ""]
        /\ \A e2 \in Scopes : (e \notin {Chain(e2)[k] : k \in 1..Len(Chain(e2))}) => Get(d, e2, n) = Get(S, e2, n)
        /\ IF b = 0
           THEN /\ g.error = "undefined variable: " \o n
                /\ st.error = "undefined variable: " \o n
                /\ st.s = S
           ELSE /\ g = [val |-> binds[b].Value, error |-> ""]
                /\ (~(binds[b].IsConst /\ ~binds[b].Forgiven)) =>
                      /\ st.error = ""
                      /\ st.s = [S EXCEPT !.binds[b].Value = IntVal(42)]

\* C6: definition acts on the current scope only, lookup and assignment on the
\* nearest binding along the parent chain.  In every step of Eval:
\* `{ let x = 5; x = 6 }` leaves the global scope and every earlier binding as they
\* were (the outer x is intact after the block), `{ x = 4 }` updates the outer
\* binding of x without rebinding it, `y = 1` with y bound nowhere dooms with
\* "undefined variable: y" and changes nothing; and C6State holds in every state.
C6_Scoping ==
    /\ []C6State
    /\ [][/\ Evaluated = 7 =>
               /\ err' = NoErr
               /\ SubSeq(binds', 1, Len(binds)) = binds
               /\ \A e \in Scopes : envs'[e] = envs[e]
          /\ (Evaluated = 6 /\ Nearest(1, "x") # 0 /\ ~binds[Nearest(1, "x")].IsConst) =>
               /\ err' = NoErr
               /\ binds' = [binds EXCEPT ![Nearest(1, "x")].Value = IntVal(4)]
               /\ \A e \in Scopes : envs'[e] = envs[e]
          /\ (Evaluated = 13 /\ Nearest(1, "y") = 0) =>
               /\ err' = DoomError("undefined variable: y")
               /\ binds' = binds /\ envs' = envs]_vars

\* C6 witness: after a block that shadowed x and a block that assigned to x, the
\* global x holds the value the assignment gave it.
C6_Witness ==
    /\ Len(program) = 3 /\ program[2] = 7 /\ program[3] = 6
    /\ err = NoErr
    /\ Nearest(1, "x") # 0 /\ binds[Nearest(1, "x")].Value = IntVal(4)
    /\ \E b \in 1..Len(binds) : binds[b].Value = IntVal(6)

(***************************************************************************)
(* Properties of control signals                                           *)
(***************************************************************************)
\* C4: Eval hands no return, propagate or guard-return signal to its caller.  In
\* every step of Eval that evaluates an item: if evalItem returns such a signal,
\* Eval returns no value and the doom "return outside function", "unhandled error
\* propagation: <value>" or "unhandled guard return: <value>"; any other error
\* is returned as it is; the error Eval returns is a doom; and once Eval has
\* returned, nothing more is evaluated.
C4_TopLevelSignals ==
    [][/\ Evaluated # 0 =>
            LET r == evalItem(Items[Evaluated], S) IN
            /\ r.err.kind = "return" =>
                  result' = <<>> /\ status' = "returned" /\ err' = DoomError("return outside function")
            /\ r.err.kind = "propagate" =>
                  /\ result' = <<>> /\ status' = "returned"
                  /\ err' = DoomError("unhandled error propagation: " \o String(r.err.value))
            /\ r.err.kind = "guard" =>
                  /\ result' = <<>> /\ status' = "returned"
                  /\ err' = DoomError("unhandled guard return: " \o String(r.err.value))
            /\ r.err.kind = "doom" => result' = <<>> /\ status' = "returned" /\ err' = r.err
            /\ r.err.kind = "none" => status' = "running" /\ err' = NoErr
       /\ Evaluated = 26 => err' = DoomError("return outside function")
       /\ Evaluated = 27 => err' = DoomError("unhandled error propagation: 7")
       /\ Evaluated = 28 => err' = DoomError("unhandled error propagation: nil")
       /\ Evaluated = 29 => err' = DoomError("unhandled guard return: no")
       /\ err'.kind \in {"none", "doom"}
       /\ err'.kind = "doom" => status' = "returned" /\ result' = <<>>
       /\ status = "returned" => UNCHANGED evalVars]_vars

\* C4 witness: a propagate signal reached the item loop after an item that had
\* been evaluated, and Eval returned the doom made of it.
C4_Witness ==
    /\ Len(program) >= 2 /\ Last(program) = 27
    /\ status = "returned" /\ result = <<>>
    /\ err = DoomError("unhandled error propagation: 7")
    /\ raised # <<>> /\ Last(raised).sig = PropagateError(IntVal(7))

\* C5: a doom raised anywhere is never absorbed.  In every state between two
\* items: a doom constructed during the evaluation so far is the error Eval
\* returned, message included, it is the last signal constructed and no output
\* was written after it.
C5_DoomNeverAbsorbed ==
    \A k \in 1..Len(raised) :
        raised[k].sig.kind = "doom" =>
            /\ status = "returned"
            /\ err = raised[k].sig
            /\ k = Len(raised)
            /\ Len(output) = raised[k].outlen

\* The signals constructed while the body of the call c ran, in the body itself
\* (not in a function it called).
BodySignals(c) == SelectSeq(SubSeq(raised, c.from + 1, c.to), LAMBDA x : x.depth = c.depth)

\* C3: at the boundary of every completed call of a user function, the first
\* signal raised in the body decides what the caller gets: the value of a return
\* or guard-return as the normal result, err(value) of a propagate as the normal
\* result, a doom as the error; the caller never gets a return, propagate or
\* guard-return signal.
C3_CallBoundary ==
    \A k \in 1..Len(calls) :
        LET c == calls[k]
            sigs == BodySignals(c) IN
        /\ c.err.kind \in {"none", "doom"}
        /\ sigs # <<>> =>
            CASE sigs[1].sig.kind \in {"return", "guard"} -> c.err = NoErr /\ c.val = sigs[1].sig.value
              [] sigs[1].sig.kind = "propagate" -> c.err = NoErr /\ c.val = ErrVal(sigs[1].sig.value)
              [] OTHER -> c.err = sigs[1].sig

(***************************************************************************)
(* Properties of calls                                                     *)
(***************************************************************************)
\* The functions with a body that some binding holds.
UserFunctions == {binds[b].Value.Fn[1] : b \in {c \in 1..Len(binds) : binds[c].Value.Kind = "ValFn" /\ binds[c].Value.Fn[1].Body # 0}}

\* C7: a function value captures the environment in effect where it was defined
\* and its body runs in a fresh child of that environment, not of the caller's.
\* In every state between two items: every function bound so far captured the
\* scope its declaration was evaluated in, and a call of it from any scope runs
\* the body in a new scope whose parent is the captured one; after
\* `fn mk(n) { fn(x) { x + n } }` and `let add5 = mk(5)`, the call add5(10) yields 15;
\* after `fn gy() { y }` and `fn fy() { let y = 1; gy() }`, with no global y, the
\* call fy() dooms with "undefined variable: y".
C7_Closures ==
    /\ \A fn \in UserFunctions : \A e \in Scopes :
            LET s2 == enterCall(fn, <<>>, From(e)) IN
            /\ fn.Env = 1
            /\ s2.env = Len(envs) + 1
            /\ s2.envs[s2.env].parent = fn.Env
    /\ (Len(program) >= 2 /\ program[1] = 40 /\ program[2] = 41) =>
            LET r == evalExpr(Call("add5", <<IntLitExpr(10)>>), S) IN
            r.err = NoErr /\ r.val = IntVal(15)
    /\ (Len(program) = 2 /\ program[1] = 43 /\ program[2] = 44) =>
            evalExpr(Call("fy", <<>>), S).err = DoomError("undefined variable: y")

\* The argument lists calls are tried with.
ArgLists == {<<>>, <<IntVal(10)>>, <<IntVal(10), IntVal(20)>>, <<IntVal(10), IntVal(20), IntVal(30)>>}

\* The positions of name among the parameters.
Positions(params, name) == {i \in 1..Len(params) : params[i] = name}

Max(set) == CHOOSE i \in set : \A j \in set : j <= i

TriggerKinds == {"INT", "FLOAT", "STRING", "IDENT", "TRUE", "FALSE", "NIL", "RPAREN", "RBRACKET",
                 "RBRACE", "QUESTION", "OK", "ERR"}

\* C9: in every token stream produced by the lexer, a synthetic semicolon is a
\* SEMICOLON token that is never the first token, the token immediately before it
\* has a semicolon-trigger kind, and that token is not itself synthetic (no two
\* synthetic semicolons are adjacent).
C9_SyntheticSemicolons ==
    /\ Len(lexlog) = Len(tokens)
    /\ \A k \in 1..Len(tokens) :
        lexlog[k].synthetic =>
            /\ tokens[k].Type = "SEMICOLON"
            /\ k > 1
            /\ tokens[k - 1].Type \in TriggerKinds
            /\ ~lexlog[k - 1].synthetic

\* C9 witness: a finished stream in which a synthetic semicolon, inserted after a
\* trigger token because a newline precedes `if`, is followed by the IF token.
C9_Witness ==
    /\ tokens # <<>>
    /\ tokens[Len(tokens)].Type = "EOF"
    /\ \E k \in 2..(Len(tokens) - 1) :
        /\ lexlog[k].synthetic
        /\ lexlog[k].sawNewline
        /\ tokens[k - 1].Type \in TriggerKinds
        /\ tokens[k + 1].Type = "IF"

\* C10: a call of NextToken returns a synthetic semicolon exactly when the token
\* emitted before it has a semicolon-trigger kind and either a newline was crossed
\* while skipping whitespace and comments and the upcoming token is end-of-input
\* or a statement-starter keyword, or the upcoming token is end-of-input.
C10_SemicolonExactlyWhen ==
    \A k \in 1..Len(lexlog) :
        lexlog[k].synthetic <=>
            /\ lexlog[k].last \in TriggerKinds
            /\ \/ lexlog[k].crossed /\ lexlog[k].up \in {"EOF"} \cup statementStarters
               \/ lexlog[k].up = "EOF"

(***************************************************************************)
(* Tokenize on malformed and multi-line input                              *)
(***************************************************************************)
\* The pieces these inputs are made of: a quote, a newline, a letter, the opener
\* and the closer of a block comment, a byte no token starts with, the byte 0
\* and a backslash.
ScanChunks == {<<"\"">>, <<"\n">>, <<"x">>, <<"#", "{">>, <<"}", "#">>, <<"@">>, <<NUL>>, <<"\\">>}

\* The most pieces in such an input.
MaxScanChunks == 4

ScanInputs == {Concat(cs) : cs \in UNION {[1..n -> ScanChunks] : n \in 0..MaxScanChunks}}

\* No lexer has been made yet (the variables hold the lexer of the empty input).
ScanInit ==
    /\ EvalInit
    /\ RestInit
    /\ suite = 1
    /\ ClockInit
    /\ LexerIs(New(<<>>))
    /\ tokens = <<>>
    /\ lexlog = <<>>

\* l := New(input) (decree.go:539-550), for an input that is not empty.
ScanNew ==
    /\ input = <<>> /\ tokens = <<>>
    /\ \E in \in ScanInputs \ {<<>>} :
        LET l == New(in) IN
        /\ input' = l.input /\ pos' = l.pos /\ readPos' = l.readPos /\ ch' = l.ch
        /\ line' = l.line /\ col' = l.col
        /\ lastToken' = l.lastToken /\ pendingSemicolon' = l.pendingSemicolon
    /\ UNCHANGED <<evalVars, tokens, lexlog, restVars>>

ScanNext == ScanNew \/ Tokenize

ScanSpec == ScanInit /\ [][ScanNext]_vars

\* (line, column) of a is at or before (line, column) of b.
PosLeq(a, b) == a.Line < b.Line \/ (a.Line = b.Line /\ a.Col <= b.Col)

\* C11: the (line, column) position of every token NextToken emits, synthetic
\* semicolons included, is lexicographically greater than or equal to the
\* position of the token emitted before it.
C11_PositionsNonDecreasing ==
    \A k \in 2..Len(tokens) : PosLeq(tokens[k - 1], tokens[k])

\* C11 witness: a finished stream in which a string that spans a newline stands
\* between an earlier token of its line and a synthetic semicolon on the next line.
C11_Witness ==
    /\ tokens # <<>> /\ tokens[Len(tokens)].Type = "EOF"
    /\ \E k \in 2..(Len(tokens) - 1) :
        /\ tokens[k].Type = "STRING" /\ tokens[k].Literal = "\n"
        /\ tokens[k - 1].Line = tokens[k].Line /\ tokens[k - 1].Col < tokens[k].Col
        /\ tokens[k + 1].Line > tokens[k].Line
        /\ lexlog[k + 1].synthetic

\* Tokenize has returned: the last token is EOF.
Tokenized == tokens # <<>> /\ tokens[Len(tokens)].Type = "EOF"

TokenKinds == {"INT", "FLOAT", "STRING", "IDENT", "SEMICOLON", "EOF", "ILLEGAL"}
              \cup {LookupIdent(w) : w \in {"if", "x", "xx", "xxx", "xxxx"}}
              \cup {singleKind(c) : c \in {"{", "}"}}

\* What is left to do before Tokenize returns: two for each byte not yet read, one
\* for a semicolon that the end of input would still add, one for the EOF token.
Variant ==
    2 * (Len(input) - (IF pos > Len(input) THEN Len(input) ELSE pos))
    + (IF SemicolonTrigger(lastToken.Type) THEN 1 ELSE 0)
    + (IF Tokenized THEN 0 ELSE 1)

\* C12: for every input the lexer terminates.  Every call of NextToken returns
\* one token and strictly lowers a natural number (the variant), so the loop of
\* Tokenize, which goes on exactly as long as the last token is not EOF, ends:
\* no token before the last is EOF, a list whose variant is 0 ends in EOF, and
\* the list never holds more than two tokens for each byte and two more.  An
\* unterminated string is one ILLEGAL token, a byte no token starts with is an
\* ILLEGAL token of that byte, an unterminated block comment is skipped.
C12_LexerTerminates ==
    /\ [](/\ \A k \in 1..(Len(tokens) - 1) : tokens[k].Type # "EOF"
          /\ \A k \in 1..Len(tokens) : tokens[k].Type \in TokenKinds
          /\ Variant \in Nat
          /\ Variant = 0 => Tokenized
          /\ Len(tokens) <= 2 * Len(input) + 2
          /\ (Tokenized /\ input = <<"\"", "x">>) =>
                tokens[1] = Token("ILLEGAL", "x", 1, 1) /\ tokens[2].Type = "EOF"
          /\ (Tokenized /\ input = <<"@">>) =>
                tokens[1] = Token("ILLEGAL", "@", 1, 1) /\ tokens[2].Type = "EOF"
          /\ (Tokenized /\ input = <<"#", "{", "x">>) => Len(tokens) = 1)
    /\ [][tokens' # tokens =>
          /\ ~Tokenized
          /\ Len(tokens') = Len(tokens) + 1
          /\ Variant' < Variant]_vars

\* C12 witness: Tokenize has returned from an input that starts with a quote
\* never closed, and the list has an ILLEGAL token before its EOF.
C12_Witness ==
    /\ Tokenized
    /\ Len(input) >= 3
    /\ input[1] = "\"" /\ \A i \in 2..Len(input) : input[i] # "\""
    /\ \E k \in 1..Len(tokens) : tokens[k].Type = "ILLEGAL" /\ Len(tokens[k].Literal) > 0

(***************************************************************************)
(* skipBlockComment, one iteration of its loop at a time                   *)
(***************************************************************************)
\* A variant of blockCommentIter: an opener raises the depth whatever it is.
blockCommentIterNoCap(l, d) ==
    IF l.ch = "#" /\ peekChar(l) = "{" THEN [l |-> readChar(readChar(l)), depth |-> d + 1]
    ELSE IF l.ch = "}" /\ peekChar(l) = "#" THEN [l |-> readChar(readChar(l)), depth |-> d - 1]
    ELSE [l |-> readChar(IF l.ch = "\n" THEN [l EXCEPT !.line = @ + 1, !.col = 0] ELSE l), depth |-> d]

\* The body of the loop of skipBlockComment (decree.go:616-635).
blockCommentIter(l, d) ==
    IF l.ch = "#" /\ peekChar(l) = "{"
    THEN (IF d < 2 THEN [l |-> readChar(readChar(l)), depth |-> d + 1]
          ELSE [l |-> readChar(l), depth |-> d])
    ELSE IF l.ch = "}" /\ peekChar(l) = "#" THEN [l |-> readChar(readChar(l)), depth |-> d - 1]
    ELSE [l |-> readChar(IF l.ch = "\n" THEN [l EXCEPT !.line = @ + 1, !.col = 0] ELSE l), depth |-> d]

\* The lexer becomes l.
LexerBecomes(l) ==
    /\ input' = l.input /\ pos' = l.pos /\ readPos' = l.readPos /\ ch' = l.ch
    /\ line' = l.line /\ col' = l.col
    /\ lastToken' = l.lastToken /\ pendingSemicolon' = l.pendingSemicolon

\* The pieces after the first opener: an opener, a closer, a letter.
CommentChunks == {<<"#", "{">>, <<"}", "#">>, <<"x">>}

\* The most pieces after the first opener.
MaxCommentChunks == 6

CommentInputs == {<<"#", "{">> \o Concat(cs) : cs \in UNION {[1..n -> CommentChunks] : n \in 0..MaxCommentChunks}}

\* A lexer on an input that starts with the opener of a block comment.
CommentInit ==
    /\ EvalInit
    /\ RestInit
    /\ suite = 1
    /\ ClockInit
    /\ \E in \in CommentInputs : LexerIs(New(in))
    /\ tokens = <<>>
    /\ lexlog = <<>>

\* The first call of NextToken reaches skipBlockComment: l.readChar(); l.readChar(); depth := 1
\* (decree.go:611-614).
skipBlockCommentEnter ==
    /\ ~skipping /\ pos = 0 /\ tokens = <<>>
    /\ ch = "#" /\ peekChar(L) = "{"
    /\ LexerBecomes(readChar(readChar(L)))
    /\ commentDepth' = 1
    /\ skipping' = TRUE
    /\ UNCHANGED <<mapVars, parseVars, evalVars, tokens, lexlog, bufVars>>

\* for depth > 0 && l.ch != 0 { ... } (decree.go:615-636)
skipBlockCommentStep ==
    /\ skipping /\ commentDepth > 0 /\ ch # NUL
    /\ LET r == blockCommentIter(L, commentDepth) IN
        /\ LexerBecomes(r.l)
        /\ commentDepth' = r.depth
    /\ UNCHANGED <<mapVars, parseVars, evalVars, tokens, lexlog, skipping, bufVars>>

\* The loop is over and skipBlockComment returns.
skipBlockCommentReturn ==
    /\ skipping /\ ~(commentDepth > 0 /\ ch # NUL)
    /\ skipping' = FALSE
    /\ UNCHANGED <<mapVars, parseVars, evalVars, lexVars, commentDepth, bufVars>>

\* NextToken goes on from where skipBlockComment returned, and Tokenize calls it
\* until EOF.
TokenizeAfterComment ==
    /\ ~skipping /\ pos > 0
    /\ Tokenize

CommentNext == skipBlockCommentEnter \/ skipBlockCommentStep \/ skipBlockCommentReturn \/ TokenizeAfterComment

CommentSpec == CommentInit /\ [][CommentNext]_vars

\* The bytes of the comment read so far, the first opener included.
Consumed == SubSeq(input, 1, IF pos > Len(input) THEN Len(input) ELSE pos)

\* C14: while a block comment is skipped the depth is 1 or 2 (0 once it has
\* ended); an opener met at depth 2 is read as text (its `#` alone is consumed)
\* and leaves the depth at 2, an opener met at depth 1 raises it to 2, every
\* closer lowers it by one, any other byte leaves it as it is; the comment ends
\* exactly when the depth is 0 or the input is at its end, where the lexer is
\* what skipBlockComment returns for the whole input; and the input
\* #{#{#{}#}#x}# yields the identifier x as its first token.
C14_BlockCommentDepth ==
    /\ [](/\ commentDepth \in 0..2
          /\ skipping => (commentDepth = 0 => pos >= 4 /\ SubSeq(input, pos - 1, pos) = <<"}", "#">>)
          /\ (~skipping /\ pos > 0 /\ tokens = <<>>) =>
                /\ commentDepth = 0 \/ ch = NUL
                /\ L = skipBlockComment(New(input))
          /\ (Tokenized /\ input = <<"#", "{", "#", "{", "#", "{", "}", "#", "}", "#", "x", "}", "#">>) =>
                tokens[1] = Token("IDENT", "x", 1, 11))
    /\ [][skipping /\ skipping' =>
            /\ commentDepth > 0 /\ ch # NUL
            /\ IF ch = "#" /\ peekChar(L) = "{"
               THEN IF commentDepth = 2 THEN commentDepth' = 2 /\ pos' = pos + 1
                    ELSE commentDepth' = commentDepth + 1 /\ pos' = pos + 2
               ELSE IF ch = "}" /\ peekChar(L) = "#"
               THEN commentDepth' = commentDepth - 1 /\ pos' = pos + 2
               ELSE commentDepth' = commentDepth /\ pos' = pos + 1]_vars

\* C14 witness: the comment of #{#{#{}#}#x}# was left at depth 0 after its third
\* opener had been read at depth 2, and x was emitted.
C14_Witness ==
    /\ input = <<"#", "{", "#", "{", "#", "{", "}", "#", "}", "#", "x", "}", "#">>
    /\ ~skipping /\ commentDepth = 0
    /\ Tokenized
    /\ tokens[1].Type = "IDENT" /\ tokens[1].Literal = "x"

(***************************************************************************)
(* An OrderedMap under a sequence of Set calls                             *)
(***************************************************************************)
\* The keys and the values the calls draw from.
MapKeys == {"a", "b", "c"}
MapValues == {IntVal(1), IntVal(2)}

\* The most Set calls.
MaxSets == 5

\* m.Set(key, val) on the map returned by NewOrderedMap().
MapSet ==
    /\ Len(setlog) < MaxSets
    /\ \E key \in MapKeys, val \in MapValues :
        /\ omap' = OrderedMapSet(omap, key, val)
        /\ setlog' = Append(setlog, <<key, val>>)
    /\ UNCHANGED <<evalVars, lexVars, commentVars, parseVars, bufVars>>

\* NewOrderedMap(): no key yet; nothing else runs.
MapInit ==
    /\ EvalInit
    /\ RestInit
    /\ suite = 1
    /\ ClockInit
    /\ LexerIs(New(<<>>))
    /\ tokens = <<>>
    /\ lexlog = <<>>

MapNext == MapSet

MapSpec == MapInit /\ [][MapNext]_vars

\* The keys of the calls, each at its first call only.
RECURSIVE FirstSets(_)
FirstSets(log) ==
    IF log = <<>> THEN <<>>
    ELSE LET before == FirstSets(SubSeq(log, 1, Len(log) - 1))
             key == log[Len(log)][1]
         IN IF \E i \in 1..(Len(log) - 1) : log[i][1] = key THEN before ELSE Append(before, key)

\* C15: after any sequence of Set calls the key list holds each key of the value
\* mapping exactly once and nothing else, Len is the number of distinct keys,
\* the key list is in the order of the first Set of each key, Get yields the
\* value of the latest Set of the key; and a Set on a key already present
\* changes that key's value only, neither the key list nor Len.
C15_OrderedMapKeys ==
    /\ [](/\ {omap.keys[i] : i \in 1..Len(omap.keys)} = DOMAIN omap.values
          /\ \A i, j \in 1..Len(omap.keys) : omap.keys[i] = omap.keys[j] => i = j
          /\ OrderedMapLen(omap) = Cardinality({setlog[i][1] : i \in 1..Len(setlog)})
          /\ OrderedMapKeys(omap) = FirstSets(setlog)
          /\ \A i \in 1..Len(setlog) :
                (\A j \in (i + 1)..Len(setlog) : setlog[j][1] # setlog[i][1]) =>
                    OrderedMapGet(omap, setlog[i][1]) = [v |-> setlog[i][2], ok |-> TRUE]
          /\ \A k \in MapKeys \ {setlog[i][1] : i \in 1..Len(setlog)} : ~OrderedMapGet(omap, k).ok)
    /\ [][(setlog' # setlog /\ setlog'[Len(setlog')][1] \in DOMAIN omap.values) =>
            /\ OrderedMapKeys(omap') = OrderedMapKeys(omap)
            /\ OrderedMapLen(omap') = OrderedMapLen(omap)
            /\ DOMAIN omap'.values = DOMAIN omap.values
            /\ \A k \in DOMAIN omap.values \ {setlog'[Len(setlog')][1]} : omap'.values[k] = omap.values[k]
            /\ omap'.values[setlog'[Len(setlog')][1]] = setlog'[Len(setlog')][2]]_vars

\* C15 witness: b was Set, then a, then b again with another value; b is still
\* first and holds the later value.
C15_Witness ==
    /\ Len(setlog) = 3
    /\ setlog[1] = <<"b", IntVal(1)>> /\ setlog[2][1] = "a" /\ setlog[3] = <<"b", IntVal(2)>>
    /\ omap.keys = <<"b", "a">>
    /\ omap.values["b"] = IntVal(2)

(***************************************************************************)
(* Parser (parser package, decree.go:1404-2406) as it moves over the       *)
(* tokens.  A parser is the record p of the token sequence the lexer       *)
(* yields, the index of curToken in it, and p.errors; peekToken and the    *)
(* buffered tokens are the tokens after curToken.  A parse function        *)
(* returns the parser it leaves and the kind of node it returns: the name  *)
(* of the Go type, "nil" for a nil result, "hang" when one of its loops    *)
(* never ends.                                                             *)
(***************************************************************************)
precLowest == 0
precAssign == 1
precOr == 2
precAnd == 3
precEquality == 4
precComparison == 5
precSum == 6
precProduct == 7
precUnary == 8
precPostfix == 9

\* The token k places from the start; NextToken returns EOF again after EOF.
tokenAt(p, k) == IF k <= Len(p.toks) THEN p.toks[k] ELSE p.toks[Len(p.toks)]

curToken(p) == tokenAt(p, p.pos)
peekToken(p) == tokenAt(p, p.pos + 1)

\* func (p *Parser) peekAhead(n int) token.Token
peekAhead(p, n) == tokenAt(p, p.pos + n)

\* func (p *Parser) nextToken(); at EOF curToken and peekToken stay EOF.
nextToken(p) == [p EXCEPT !.pos = IF @ >= Len(p.toks) THEN @ ELSE @ + 1]

curIs(p, tt) == curToken(p).Type = tt
peekIs(p, tt) == peekToken(p).Type = tt

\* func (p *Parser) addError(msg string); the message without its arguments.
addError(p, msg) ==
    [p EXCEPT !.errors = Append(@, [Line |-> curToken(p).Line, Col |-> curToken(p).Col, msg |-> msg])]

expectPeek(p, tt) ==
    IF peekIs(p, tt) THEN [p |-> nextToken(p), ok |-> TRUE]
    ELSE [p |-> addError(p, "expected %s, got %s (%q)"), ok |-> FALSE]

\* What a parse function returns.
Node(p, node) == [p |-> p, node |-> node]

\* r := ...; K(r), unless the call never returns.
Then(r, K(_)) == IF r.node = "hang" THEN r ELSE K(r)

\* if p.curIs(token.RPAREN) { p.nextToken() }
skipRParen(p) == IF curIs(p, "RPAREN") THEN nextToken(p) ELSE p

\* if p.curIs(token.SEMICOLON) { p.nextToken() }
skipSemicolon(p) == IF curIs(p, "SEMICOLON") THEN nextToken(p) ELSE p

tokenPrecedence(tt) ==
    CASE tt = "ASSIGN" -> precAssign
      [] tt = "OR" -> precOr
      [] tt = "AND" -> precAnd
      [] tt \in {"EQ", "STRICT_EQ", "NEQ"} -> precEquality
      [] tt \in {"LT", "GT", "LTE", "GTE"} -> precComparison
      [] tt \in {"PLUS", "MINUS"} -> precSum
      [] tt \in {"STAR", "SLASH", "PERCENT"} -> precProduct
      [] tt \in {"LPAREN", "LBRACKET", "DOT", "QUESTION", "AS"} -> precPostfix
      [] OTHER -> 0

curPrecedence(p) == tokenPrecedence(curToken(p).Type)

\* strconv.ParseInt succeeds: a decimal literal of at most 18 digits fits in 64
\* bits (the inputs hold no longer and no hexadecimal literal).
parsesAsInt(lit) == Len(lit) <= 18

RECURSIVE parseExpression(_, _), infixLoop(_, _), parsePrefixExpr(_), parseInfixExpr(_, _)
RECURSIVE parseExprList(_, _), exprListLoop(_, _), parseMapLitExpr(_), mapLoop(_)
RECURSIVE parseBlockExpr(_), blockLoop(_), parseStmt(_), parseIfExpr(_), parseMatchExpr(_)
RECURSIVE armLoop(_), parseMatchArm(_), parsePattern(_), maybeGuardedPattern(_)

\* --- Infix parsers
parseBinaryExpr(p, left) ==
    Then(parseExpression(nextToken(p), curPrecedence(p)), LAMBDA r : Node(r.p, "BinaryExpr"))

parseAssignExpr(p, left) ==
    Then(parseExpression(nextToken(p), precLowest), LAMBDA value :
        CASE left = "IdentExpr" -> Node(value.p, "AssignExpr")
          [] left = "IndexExpr" -> Node(value.p, "IndexAssignExpr")
          [] left = "DotExpr"   -> Node(value.p, "DotAssignExpr")
          [] OTHER -> Node(addError(value.p, "left side of assignment must be an identifier, index expression, or dot expression"), "nil"))

parseCallExpr(p, left) ==
    Then(parseExprList(p, "RPAREN"), LAMBDA r : Node(r.p, "CallExpr"))

parseIndexExpr(p, left) ==
    Then(parseExpression(nextToken(p), precLowest), LAMBDA r :
        IF ~curIs(r.p, "RBRACKET") THEN Node(addError(r.p, "expected ], got %s"), "nil")
        ELSE Node(nextToken(r.p), "IndexExpr"))

parseDotExpr(p, left) ==
    IF ~curIs(nextToken(p), "IDENT") THEN Node(addError(nextToken(p), "expected identifier after ., got %s"), "nil")
    ELSE Node(nextToken(nextToken(p)), "DotExpr")

parsePropagateExpr(p, left) == Node(nextToken(p), "PropagateExpr")

parseAsExpr(p, left) == Node(nextToken(nextToken(p)), "AsExpr")

\* --- Prefix parsers
parseIntLit(p) ==
    IF ~parsesAsInt(curToken(p).Literal) THEN Node(addError(p, "could not parse %q as integer: %s"), "nil")
    ELSE Node(nextToken(p), "IntLitExpr")

parseFloatLit(p) == Node(nextToken(p), "FloatLitExpr")
parseStringLit(p) == Node(nextToken(p), "StringLitExpr")
parseBoolLit(p) == Node(nextToken(p), "BoolLitExpr")
parseNilLit(p) == Node(nextToken(p), "NilLitExpr")
parseIdentExpr(p) == Node(nextToken(p), "IdentExpr")

parseUnaryExpr(p) ==
    Then(parseExpression(nextToken(p), precUnary), LAMBDA r : Node(r.p, "UnaryExpr"))

parseGroupedExpr(p) ==
    Then(parseExpression(nextToken(p), precLowest), LAMBDA expr :
        IF ~curIs(expr.p, "RPAREN") THEN Node(addError(expr.p, "expected ), got %s"), "nil")
        ELSE Node(nextToken(expr.p), expr.node))

parseArrayLitExpr(p) ==
    Then(parseExprList(p, "RBRACKET"), LAMBDA r : Node(r.p, "ArrayLitExpr"))

\* The end of parseExprList (decree.go:2053-2058).
exprListEnd(p, end) ==
    IF ~curIs(p, end) THEN Node(addError(p, "expected %s, got %s"), "list")
    ELSE Node(nextToken(p), "list")

\* The loop of parseExprList (decree.go:2046-2052).
exprListLoop(p, end) ==
    IF curIs(p, "COMMA")
    THEN IF curIs(nextToken(p), end) THEN exprListEnd(nextToken(p), end)
         ELSE Then(parseExpression(nextToken(p), precLowest), LAMBDA r : exprListLoop(r.p, end))
    ELSE exprListEnd(p, end)

parseExprList(p, end) ==
    IF curIs(nextToken(p), end) THEN Node(nextToken(nextToken(p)), "list")
    ELSE Then(parseExpression(nextToken(p), precLowest), LAMBDA r : exprListLoop(r.p, end))

isMapLiteral(p) ==
    IF peekIs(p, "STRING") THEN TRUE
    ELSE IF peekToken(p).Type \in {"IDENT", "OK", "ERR", "INT", "FLOAT", "TRUE", "FALSE", "NIL"}
    THEN peekAhead(p, 2).Type = "COLON"
    ELSE FALSE

\* The loop of parseMapLitExpr and what follows it (decree.go:2083-2103).
mapLoop(p) ==
    IF ~(~curIs(p, "RBRACE") /\ ~curIs(p, "EOF"))
    THEN IF ~curIs(p, "RBRACE") THEN Node(addError(p, "expected }, got %s"), "MapLitExpr")
         ELSE Node(nextToken(p), "MapLitExpr")
    ELSE Then(parseExpression(p, precLowest), LAMBDA key :
            IF ~curIs(key.p, "COLON") THEN Node(addError(key.p, "expected :, got %s"), "MapLitExpr")
            ELSE Then(parseExpression(nextToken(key.p), precLowest), LAMBDA value :
                    mapLoop(IF curIs(value.p, "COMMA") \/ curIs(value.p, "SEMICOLON")
                            THEN nextToken(value.p) ELSE value.p)))

parseMapLitExpr(p) == mapLoop(nextToken(p))

parseBlockOrMap(p) == IF isMapLiteral(p) THEN parseMapLitExpr(p) ELSE parseBlockExpr(p)

parseGuardExpr(p) ==
    Then(parseExpression(nextToken(p), precLowest), LAMBDA c :
        IF ~curIs(c.p, "ELSE") THEN Node(addError(c.p, "expected else after guard condition, got %s"), "nil")
        ELSE Then(parseExpression(nextToken(c.p), precLowest), LAMBDA e : Node(e.p, "GuardExpr")))

\* parseOkExpr and parseErrExpr, which differ in the node they build.
parseWrapExpr(p, node) ==
    IF ~peekIs(p, "LPAREN") THEN Node(nextToken(p), "IdentExpr")
    ELSE Then(parseExpression(nextToken(nextToken(p)), precLowest), LAMBDA inner :
            IF ~curIs(inner.p, "RPAREN") THEN Node(addError(inner.p, "expected ) in ok(), got %s"), "nil")
            ELSE Node(nextToken(inner.p), node))

parseOkExpr(p) == parseWrapExpr(p, "OkExpr")
parseErrExpr(p) == parseWrapExpr(p, "ErrExpr")

parseSpeakExpr(p) ==
    Then(parseExpression(nextToken(p), precLowest), LAMBDA value :
        IF curIs(value.p, "ELSE")
        THEN Then(parseExpression(nextToken(value.p), precLowest), LAMBDA e : Node(e.p, "SpeakExpr"))
        ELSE Node(value.p, "SpeakExpr"))

\* parseSorryExpr after its first expectPeek succeeded.
sorryName(p) ==
    IF ~curIs(p, "IDENT") THEN Node(addError(p, "expected identifier in sorry(), got %s"), "nil")
    ELSE IF ~expectPeek(p, "RPAREN").ok THEN Node(expectPeek(p, "RPAREN").p, "nil")
    ELSE Node(nextToken(expectPeek(p, "RPAREN").p), "SorryExpr")

parseSorryExpr(p) ==
    IF ~expectPeek(p, "LPAREN").ok THEN Node(expectPeek(p, "LPAREN").p, "nil")
    ELSE sorryName(nextToken(expectPeek(p, "LPAREN").p))

parseDoomExpr(p) ==
    IF ~expectPeek(p, "LPAREN").ok THEN Node(expectPeek(p, "LPAREN").p, "nil")
    ELSE Then(parseExpression(nextToken(expectPeek(p, "LPAREN").p), precLowest), LAMBDA msg :
            IF ~curIs(msg.p, "RPAREN") THEN Node(addError(msg.p, "expected ) in doom(), got %s"), "nil")
            ELSE Node(nextToken(msg.p), "DoomExpr"))

parseChantExpr(p) ==
    Then(parseExpression(nextToken(p), precLowest), LAMBDA name : Node(name.p, "ChantExpr"))

parseSpawnExpr(p) ==
    Then(parseBlockExpr(nextToken(p)), LAMBDA body :
        IF body.node = "nil" THEN body ELSE Node(body.p, "SpawnExpr"))

parseAwaitAllExpr(p) ==
    IF peekIs(p, "LPAREN")
    THEN IF ~expectPeek(nextToken(p), "RPAREN").ok THEN Node(expectPeek(nextToken(p), "RPAREN").p, "nil")
         ELSE Node(nextToken(expectPeek(nextToken(p), "RPAREN").p), "AwaitAllExpr")
    ELSE Node(nextToken(p), "AwaitAllExpr")

\* parseIfExpr after `else` was passed (decree.go:2157-2165).
ifElse(p) ==
    IF curIs(p, "IF") THEN Then(parseIfExpr(p), LAMBDA e : Node(e.p, "IfExpr"))
    ELSE IF curIs(p, "LBRACE") THEN Then(parseBlockExpr(p), LAMBDA e : Node(e.p, "IfExpr"))
    ELSE Then(parseExpression(p, precLowest), LAMBDA e : Node(e.p, "IfExpr"))

parseIfExpr(p) ==
    Then(parseExpression(nextToken(p), precLowest), LAMBDA c :
        Then(parseBlockExpr(c.p), LAMBDA then :
            IF then.node = "nil" THEN then
            ELSE IF curIs(then.p, "ELSE") THEN ifElse(nextToken(then.p))
            ELSE Node(then.p, "IfExpr")))

maybeGuardedPattern(p) ==
    IF curIs(p, "IF")
    THEN Then(parseExpression(nextToken(p), precLowest), LAMBDA guard : Node(guard.p, "GuardedPattern"))
    ELSE Node(p, "Pattern")

\* The ok(v) / err(e) case of parsePattern after `ok (` (decree.go:2218-2226).
wrapPatternEnd(p) ==
    maybeGuardedPattern(skipRParen(IF curIs(p, "IDENT") THEN nextToken(p) ELSE p))

parsePattern(p) ==
    IF curIs(p, "IDENT") /\ curToken(p).Literal = "_" THEN maybeGuardedPattern(nextToken(p))
    ELSE IF (curIs(p, "OK") \/ curIs(p, "ERR")) /\ peekIs(p, "LPAREN")
    THEN wrapPatternEnd(nextToken(nextToken(p)))
    ELSE IF curToken(p).Type \in {"INT", "FLOAT", "STRING", "TRUE", "FALSE", "NIL"}
    THEN Then(parsePrefixExpr(p), LAMBDA expr : maybeGuardedPattern(expr.p))
    ELSE IF curIs(p, "MINUS") /\ (peekIs(p, "INT") \/ peekIs(p, "FLOAT"))
    THEN Then(parseUnaryExpr(p), LAMBDA expr : maybeGuardedPattern(expr.p))
    ELSE IF curIs(p, "IDENT")
    THEN IF curIs(nextToken(p), "COLON") THEN maybeGuardedPattern(nextToken(nextToken(nextToken(p))))
         ELSE maybeGuardedPattern(nextToken(p))
    ELSE Node(nextToken(addError(p, "unexpected token in pattern: %s (%q)")), "WildcardPattern")

parseMatchArm(p) ==
    Then(parsePattern(p), LAMBDA pat :
        IF ~curIs(pat.p, "ARROW") THEN Node(addError(pat.p, "expected =>, got %s (%q)"), "MatchArm")
        ELSE Then(parseExpression(nextToken(pat.p), precLowest), LAMBDA body :
                Node(IF curIs(body.p, "COMMA") \/ curIs(body.p, "SEMICOLON") THEN nextToken(body.p) ELSE body.p,
                     "MatchArm")))

\* The loop over the arms (decree.go:2181-2184); an arm that leaves curToken
\* where it was is parsed again for ever.
armLoop(p) ==
    IF ~(~curIs(p, "RBRACE") /\ ~curIs(p, "EOF")) THEN Node(p, "arms")
    ELSE Then(parseMatchArm(p), LAMBDA arm :
            IF arm.p.pos = p.pos THEN Node(arm.p, "hang") ELSE armLoop(arm.p))

parseMatchExpr(p) ==
    Then(parseExpression(nextToken(p), precLowest), LAMBDA subject :
        IF ~curIs(subject.p, "LBRACE")
        THEN Node(addError(subject.p, "expected { after match subject, got %s"), "nil")
        ELSE Then(armLoop(nextToken(subject.p)), LAMBDA arms :
                Node(IF curIs(arms.p, "RBRACE") THEN nextToken(arms.p) ELSE arms.p, "MatchExpr")))

\* The loop of parseBlockExpr (decree.go:2110-2133); a statement that leaves
\* curToken where it was is parsed again for ever.
blockLoop(p) ==
    IF ~(~curIs(p, "RBRACE") /\ ~curIs(p, "EOF")) THEN Node(p, "BlockExpr")
    ELSE IF curIs(p, "LET") \/ curIs(p, "CONST") \/ curIs(p, "RETURN") \/ curIs(p, "DECREE")
    THEN Then(parseStmt(p), LAMBDA stmt :
            IF stmt.p.pos = p.pos THEN Node(stmt.p, "hang") ELSE blockLoop(stmt.p))
    ELSE Then(parseExpression(p, precLowest), LAMBDA expr :
            IF expr.node = "nil" THEN blockLoop(nextToken(expr.p))
            ELSE blockLoop(skipSemicolon(expr.p)))

parseBlockExpr(p) ==
    IF ~curIs(p, "LBRACE") THEN Node(addError(p, "expected {, got %s (%q)"), "nil")
    ELSE Then(blockLoop(nextToken(p)), LAMBDA block :
            IF ~curIs(block.p, "RBRACE") THEN Node(addError(block.p, "expected }"), "BlockExpr")
            ELSE Node(nextToken(block.p), "BlockExpr"))

parsePrefixExpr(p) ==
    CASE curIs(p, "INT") -> parseIntLit(p)
      [] curIs(p, "FLOAT") -> parseFloatLit(p)
      [] curIs(p, "STRING") -> parseStringLit(p)
      [] curIs(p, "TRUE") \/ curIs(p, "FALSE") -> parseBoolLit(p)
      [] curIs(p, "NIL") -> parseNilLit(p)
      [] curIs(p, "IDENT") -> parseIdentExpr(p)
      [] curIs(p, "MINUS") \/ curIs(p, "BANG") \/ curIs(p, "AMP") -> parseUnaryExpr(p)
      [] curIs(p, "LPAREN") -> parseGroupedExpr(p)
      [] curIs(p, "LBRACKET") -> parseArrayLitExpr(p)
      [] curIs(p, "LBRACE") -> parseBlockOrMap(p)
      [] curIs(p, "IF") -> parseIfExpr(p)
      [] curIs(p, "MATCH") -> parseMatchExpr(p)
      [] curIs(p, "GUARD") -> parseGuardExpr(p)
      [] curIs(p, "OK") -> parseOkExpr(p)
      [] curIs(p, "ERR") -> parseErrExpr(p)
      [] curIs(p, "SPEAK") -> parseSpeakExpr(p)
      [] curIs(p, "SORRY") -> parseSorryExpr(p)
      [] curIs(p, "DOOM") -> parseDoomExpr(p)
      [] curIs(p, "CHANT") -> parseChantExpr(p)
      [] curIs(p, "SPAWN") -> parseSpawnExpr(p)
      [] curIs(p, "AWAIT_ALL") -> parseAwaitAllExpr(p)
      [] OTHER -> Node(addError(p, "unexpected token %s (%q)"), "nil")

parseInfixExpr(p, left) ==
    CASE curToken(p).Type \in {"PLUS", "MINUS", "STAR", "SLASH", "PERCENT", "EQ", "STRICT_EQ", "NEQ",
                               "LT", "GT", "LTE", "GTE", "AND", "OR"} -> parseBinaryExpr(p, left)
      [] curIs(p, "ASSIGN") -> parseAssignExpr(p, left)
      [] curIs(p, "LPAREN") -> parseCallExpr(p, left)
      [] curIs(p, "LBRACKET") -> parseIndexExpr(p, left)
      [] curIs(p, "DOT") -> parseDotExpr(p, left)
      [] curIs(p, "QUESTION") -> parsePropagateExpr(p, left)
      [] curIs(p, "AS") -> parseAsExpr(p, left)
      [] OTHER -> Node(p, left)

\* The loop of parseExpression (decree.go:1720-1729).
infixLoop(left, prec) ==
    IF curPrecedence(left.p) <= prec THEN left
    ELSE Then(parseInfixExpr(left.p, left.node), LAMBDA l2 :
            IF l2.node = "nil" THEN l2 ELSE infixLoop(l2, prec))

parseExpression(p, prec) ==
    Then(parsePrefixExpr(p), LAMBDA left :
        IF left.node = "nil" THEN left ELSE infixLoop(left, prec))

\* --- Statements
\* The type annotation of let and const: `: type` is passed over.
skipAnnotation(p) == IF peekIs(p, "COLON") THEN nextToken(nextToken(p)) ELSE p

\* let and const from the `=` on (decree.go:1644-1652, 1666-1674).
stmtValue(p, node) ==
    IF ~expectPeek(p, "ASSIGN").ok THEN Node(expectPeek(p, "ASSIGN").p, "nil")
    ELSE Then(parseExpression(nextToken(expectPeek(p, "ASSIGN").p), precLowest), LAMBDA value :
            Node(skipSemicolon(value.p), node))

parseLetStmt(p) ==
    IF ~curIs(nextToken(p), "IDENT") /\ ~curIs(nextToken(p), "OK") /\ ~curIs(nextToken(p), "ERR")
    THEN Node(addError(nextToken(p), "expected identifier after let, got %s (%q)"), "nil")
    ELSE stmtValue(skipAnnotation(nextToken(p)), "LetStmt")

parseConstStmt(p) ==
    IF ~expectPeek(p, "IDENT").ok THEN Node(expectPeek(p, "IDENT").p, "nil")
    ELSE stmtValue(skipAnnotation(expectPeek(p, "IDENT").p), "ConstStmt")

parseReturnStmt(p) ==
    Then(parseExpression(nextToken(p), precLowest), LAMBDA value : Node(skipSemicolon(value.p), "ReturnStmt"))

parseDecreeStmt(p) ==
    IF ~expectPeek(p, "STRING").ok THEN Node(expectPeek(p, "STRING").p, "nil")
    ELSE Node(skipSemicolon(nextToken(expectPeek(p, "STRING").p)), "DecreeStmt")

parseExprStmt(p) ==
    Then(parseExpression(p, precLowest), LAMBDA expr : Node(skipSemicolon(expr.p), "ExprStmt"))

\* A pointer returned as a Stmt or an Item: the interface value of a nil pointer
\* is not nil.
asInterface(r) == IF r.node = "nil" THEN Node(r.p, "nil pointer") ELSE r

parseStmt(p) ==
    CASE curIs(p, "LET") -> asInterface(parseLetStmt(p))
      [] curIs(p, "CONST") -> asInterface(parseConstStmt(p))
      [] curIs(p, "RETURN") -> asInterface(parseReturnStmt(p))
      [] curIs(p, "DECREE") -> asInterface(parseDecreeStmt(p))
      [] OTHER -> asInterface(parseExprStmt(p))

\* --- Declarations
\* The loop of parseParamList and the nextToken after it (decree.go:1591-1610).
RECURSIVE paramLoop(_)
paramLoop(p) ==
    IF ~curIs(p, "IDENT") THEN addError(p, "expected parameter name, got %s")
    ELSE IF ~peekIs(skipAnnotation(p), "COMMA") THEN nextToken(skipAnnotation(p))
    ELSE paramLoop(nextToken(nextToken(skipAnnotation(p))))

parseParamList(p) == IF curIs(nextToken(p), "RPAREN") THEN nextToken(p) ELSE paramLoop(nextToken(p))

\* parseFnDecl from the parameter list on (decree.go:1541-1554).
fnParamsAndBody(p) ==
    IF ~curIs(parseParamList(p), "RPAREN") THEN Node(addError(parseParamList(p), "expected ), got %s"), "nil")
    ELSE Then(parseBlockExpr(nextToken(parseParamList(p))), LAMBDA body :
            IF body.node = "nil" THEN body ELSE Node(body.p, "FnDecl"))

\* fn NAME ( and extern fn NAME (, from the name on.
declName(p, K(_)) ==
    IF ~expectPeek(p, "IDENT").ok THEN Node(expectPeek(p, "IDENT").p, "nil")
    ELSE IF ~expectPeek(expectPeek(p, "IDENT").p, "LPAREN").ok
    THEN Node(expectPeek(expectPeek(p, "IDENT").p, "LPAREN").p, "nil")
    ELSE K(expectPeek(expectPeek(p, "IDENT").p, "LPAREN").p)

parseFnDecl(p) == declName(p, LAMBDA q : fnParamsAndBody(q))

\* parseExternDecl from the parameter list on (decree.go:1569-1579).
externParams(p) ==
    IF ~curIs(parseParamList(p), "RPAREN") THEN Node(addError(parseParamList(p), "expected ), got %s"), "nil")
    ELSE Node(skipSemicolon(nextToken(parseParamList(p))), "ExternDecl")

parseExternDecl(p) ==
    IF ~expectPeek(p, "FN").ok THEN Node(expectPeek(p, "FN").p, "nil")
    ELSE declName(expectPeek(p, "FN").p, LAMBDA q : externParams(q))

parseItem(p) ==
    CASE curIs(p, "FN") -> asInterface(parseFnDecl(p))
      [] curIs(p, "EXTERN") -> asInterface(parseExternDecl(p))
      [] curIs(p, "LET") -> asInterface(parseLetStmt(p))
      [] curIs(p, "CONST") -> asInterface(parseConstStmt(p))
      [] curIs(p, "RETURN") -> asInterface(parseReturnStmt(p))
      [] curIs(p, "DECREE") -> asInterface(parseDecreeStmt(p))
      [] OTHER -> asInterface(parseExprStmt(p))

(***************************************************************************)
(* Parse (decree.go:1496-1512): one action per iteration of its loop, one  *)
(* for its return; the lexer has yielded its tokens before.                *)
(***************************************************************************)
\* The parser as the record the parse functions work on.
P == [toks |-> tokens, pos |-> cursor, errors |-> errors]

\* The pieces of source text the parsed inputs are made of.
ParseChunks == {<<"c", "o", "n", "s", "t", " ">>, <<"f", "n", " ">>, <<"x", " ">>, <<"=">>, <<"1">>,
                <<")">>, <<"{">>}

\* The most pieces in a parsed input.
MaxParseChunks == 4

\* The most iterations of the loop of Parse that are followed.
MaxIterations == 6

ParseInputs == {Concat(cs) : cs \in UNION {[1..n -> ParseChunks] : n \in 0..MaxParseChunks}}

ParseInit ==
    /\ EvalInit
    /\ RestInit
    /\ suite = 1
    /\ ClockInit
    /\ \E in \in ParseInputs : LexerIs(New(in))
    /\ tokens = <<>>
    /\ lexlog = <<>>

\* New(l) of the parser: two calls of nextToken put the first token in curToken.
ParserNew ==
    /\ Tokenized
    /\ parsing = "idle"
    /\ cursor' = 1
    /\ parsing' = "parsing"
    /\ UNCHANGED <<evalVars, lexVars, commentVars, mapVars, errors, progItems, iterations, bufVars>>

\* item := p.parseItem(); if item != nil { append } else { p.nextToken() }
ParseItemDone(item) ==
    IF item.node = "hang"
    THEN /\ parsing' = "hung"
         /\ cursor' = item.p.pos
         /\ errors' = item.p.errors
         /\ UNCHANGED progItems
    ELSE IF item.node # "nil"
    THEN /\ progItems' = Append(progItems, item.node)
         /\ cursor' = item.p.pos
         /\ errors' = item.p.errors
         /\ UNCHANGED parsing
    ELSE /\ cursor' = nextToken(item.p).pos
         /\ errors' = item.p.errors
         /\ UNCHANGED <<progItems, parsing>>

\* One iteration of `for !p.curIs(token.EOF)`.
ParseIteration ==
    /\ parsing = "parsing"
    /\ ~curIs(P, "EOF")
    /\ iterations < MaxIterations
    /\ iterations' = iterations + 1
    /\ IF curIs(P, "SEMICOLON")
       THEN cursor' = nextToken(P).pos /\ UNCHANGED <<errors, progItems, parsing>>
       ELSE ParseItemDone(parseItem(P))
    /\ UNCHANGED <<evalVars, lexVars, commentVars, mapVars, bufVars>>

\* return prog
ParseReturn ==
    /\ parsing = "parsing"
    /\ curIs(P, "EOF")
    /\ parsing' = "returned"
    /\ UNCHANGED <<evalVars, lexVars, commentVars, mapVars, cursor, errors, progItems, iterations, bufVars>>

ParseNext == Tokenize \/ ParserNew \/ ParseIteration \/ ParseReturn

ParseSpec == ParseInit /\ [][ParseNext]_vars

\* C13: Parse terminates on every source text: no loop inside a parse function
\* runs for ever, each iteration of the loop over the items consumes at least
\* one token, and after a diagnostic curToken is past the token it was on.
C13_ParseAdvances ==
    /\ [](parsing # "hung")
    /\ [][iterations' # iterations => cursor' > cursor]_vars
    /\ [][Len(errors') > Len(errors) => cursor' > cursor]_vars

(***************************************************************************)
(* Properties of arrays and maps                                           *)
(***************************************************************************)
\* The value a read of name from scope e gives.
Held(e, name) == Get(S, e, name).val

IsContainer(v) == v.Kind \in {"ValArray", "ValMap"}

\* The indexes and keys the stores of C16State go through.
Indexes == <<IntLitExpr(0), IntLitExpr(1), IntLitExpr(2), StringLitExpr("k"), StringLitExpr("j")>>

\* C16 in a state: from every scope e, for every two names that hold the same
\* array or map and every index, an index assignment through the first name that
\* succeeds allocates nothing and is read back through the second name; so is a
\* field assignment when the two names hold the same map.
C16State ==
    \A e \in Scopes : \A n1, n2 \in BoundNames :
        (/\ Nearest(e, n1) # 0 /\ Nearest(e, n2) # 0
         /\ IsContainer(Held(e, n1)) /\ Held(e, n1) = Held(e, n2)) =>
            /\ \A k \in DOMAIN Indexes :
                  LET i == Indexes[k]
                      w == evalIndexAssignExpr(IndexAssignExpr(IdentExpr(n1), i, IntLitExpr(42)), From(e)) IN
                  ~IsErr(w) =>
                      /\ Len(w.s.heap) = Len(heap)
                      /\ evalIndexExpr(IndexExpr(IdentExpr(n2), i), w.s).val = IntVal(42)
                      /\ evalIndexExpr(IndexExpr(IdentExpr(n2), i), w.s).err = NoErr
            /\ Held(e, n1).Kind = "ValMap" =>
                  LET w == evalDotAssignExpr(DotAssignExpr(IdentExpr(n1), "f", IntLitExpr(42)), From(e)) IN
                  /\ ~IsErr(w)
                  /\ Len(w.s.heap) = Len(heap)
                  /\ evalDotExpr(DotExpr(IdentExpr(n2), "f"), w.s).val = IntVal(42)
                  /\ evalIndexExpr(IndexExpr(IdentExpr(n2), StringLitExpr("f")), w.s).val = IntVal(42)

\* The names the let statements of the programs bind to the value of another name.
Aliases == {<<55, "b", "a">>, <<63, "n", "m">>}

\* C16: arrays and maps are shared, never copied.  In every step of Eval:
\* `let b = a` and `let n = m` with the right-hand name bound allocate no array or
\* map and leave both names holding the same value; a call allocates none and
\* binds the parameter to the very value of the argument; after `b[1] = 9` with
\* a and b holding the same array `speak a[1]` prints 9; after setf(a), which
\* stores 7 through its parameter, `speak a[1]` prints 7; after cap(), which
\* stores 8 through the variable a it captured, `speak b[1]` prints 8 when b holds
\* a's array; after `n.k = 5` with m and n holding the same map `speak m.k`
\* prints 5; after setk(m) `speak m["k"]` prints 6.  And C16State holds in every
\* state.
C16_ReferenceSemantics ==
    /\ []C16State
    /\ [][/\ \A al \in Aliases :
               (Evaluated = al[1] /\ Nearest(1, al[3]) # 0) =>
                   /\ err' = NoErr
                   /\ heap' = heap
                   /\ Held(1, al[2])' = Held(1, al[3])
                   /\ Held(1, al[3])' = Held(1, al[3])
          /\ (Evaluated \in {59, 66} /\ err' = NoErr) =>
               /\ Len(heap') = Len(heap)
               /\ Len(binds') = Len(binds) + 1
               /\ Last(binds').Value = Held(1, IF Evaluated = 59 THEN "a" ELSE "m")
          /\ (Evaluated = 57 /\ err' = NoErr /\ Held(1, "a") = Held(1, "b")) => output' = Append(output, "9")
          /\ (Evaluated = 59 /\ err' = NoErr) => output' = Append(output, "7")
          /\ (Evaluated = 61 /\ err' = NoErr /\ Held(1, "a") = Held(1, "b")) => output' = Append(output, "8")
          /\ (Evaluated = 64 /\ err' = NoErr /\ Held(1, "m") = Held(1, "n")) => output' = Append(output, "5")
          /\ (Evaluated = 66 /\ err' = NoErr) => output' = Append(output, "6")]_vars

\* C16 witness: a and b held the same array, `b[1] = 9` stored through b and
\* `speak a[1]` printed 9; one array was ever allocated.
C16_Witness ==
    /\ program = <<54, 55, 57>>
    /\ err = NoErr
    /\ output = <<"9">>
    /\ Len(heap) = 1
    /\ Held(1, "a") = ArrayVal(1) /\ Held(1, "b") = ArrayVal(1)

(***************************************************************************)
(* Order of evaluation                                                     *)
(***************************************************************************)
\* What a step printed.
Printed == SubSeq(output', Len(output) + 1, Len(output'))

\* The operands of the item, as the numbers they announce themselves with, in the
\* order they are written in (the body of f announces itself last, with 4).
Written ==
    [i \in Suites[6] |->
        CASE i \in {71, 73, 81} -> <<"1", "2">>
          [] i \in {72, 74, 80} -> <<"1", "2", "3">>
          [] i = 75 -> <<"1", "2", "3", "4">>
          [] i = 78 -> <<"1", "2", "3", "4">>
          [] i = 79 -> <<"1", "2", "4">>
          [] OTHER -> <<>>]

IsPrefix(a, b) == Len(a) <= Len(b) /\ SubSeq(b, 1, Len(a)) = a

\* C17: the operands of an expression are evaluated from left to right.  In every
\* step of Eval that evaluates an item whose operands announce themselves, the
\* step prints the numbers of the operands in the order they are written in: all
\* of them when the item is evaluated without an error, the first ones when an
\* operand raises one.
C17_LeftToRight ==
    [][(Evaluated # 0 /\ suite = 6) =>
            /\ err' = NoErr => Printed = Written[Evaluated]
            /\ IsPrefix(Printed, Written[Evaluated])]_vars

(***************************************************************************)
(* Properties of match                                                     *)
(***************************************************************************)
\* The names a pattern bound.
Bound(bindings) == {bindings[i].name : i \in 1..Len(bindings)}

\* C18 in a state, over the record of what evalMatchExpr did so far (no match of
\* the programs is nested in another): the pattern of arm 1 is tried first, that
\* of a later arm right after the pattern before it failed to match; a body is
\* evaluated right after the pattern of its own arm matched and nothing more of
\* that match is tried or evaluated after it; the body ran in an environment that
\* did not exist before, a child of the environment of the match, which holds
\* the names the pattern bound and nothing else, and which is not the current
\* environment once the match is done; the arms are exhausted only after the
\* pattern of the last one failed.
C18State ==
    \A j \in 1..Len(matches) :
        LET ev == matches[j] IN
        /\ (ev.kind = "pattern" /\ ev.arm = 1) => (j = 1 \/ matches[j - 1].kind \in {"body", "exhausted"})
        /\ (ev.kind = "pattern" /\ ev.arm > 1) =>
              /\ j > 1
              /\ matches[j - 1].kind = "pattern" /\ matches[j - 1].arm = ev.arm - 1
              /\ ~matches[j - 1].matched /\ matches[j - 1].subject = ev.subject
        /\ (ev.kind = "pattern" /\ ev.matched) =>
              /\ j < Len(matches)
              /\ matches[j + 1].kind = "body" /\ matches[j + 1].arm = ev.arm
        /\ ev.kind = "body" =>
              /\ j > 1
              /\ matches[j - 1].kind = "pattern" /\ matches[j - 1].arm = ev.arm
              /\ matches[j - 1].matched /\ matches[j - 1].bindings = ev.bindings
              /\ ev.scope = ev.nenvs + 1
              /\ envs[ev.scope].parent = ev.env
              /\ DOMAIN envs[ev.scope].bindings = Bound(ev.bindings)
              /\ ev.after = ev.env
              /\ ev.scope \notin {Chain(env)[k] : k \in 1..Len(Chain(env))}
        /\ ev.kind = "exhausted" =>
              (ev.arm > 0 =>
                  /\ j > 1
                  /\ matches[j - 1].kind = "pattern" /\ matches[j - 1].arm = ev.arm
                  /\ ~matches[j - 1].matched)

\* The subject of the match just evaluated.
Subject == Held(1, "x")

\* C18: the first arm that matches is the one evaluated, in a scope of its own.
\* C18State holds in every state, and in every step of Eval: the match over x with
\* the arms `1`, `v if {speak 2; v == 2}`, `ok(w)`, `_ if {speak 4; false}` prints
\* 10 for x = 1 (no guard is evaluated), 2 and 30 for x = 2, 2 and the content of x
\* for x = ok(3), and for x = "s" prints 2 and 4 and is the doom "match exhausted:
\* no arm matched value s"; `match x { _ => speak 7, v if {speak 2; true} => speak 8,
\* _ => speak 9 }` prints 7 alone; `match 5 { v => v = 9, _ => speak 8 }` yields 9,
\* prints nothing and leaves every binding that existed as it was; `speak v` and
\* `speak w` doom with "undefined variable" unless a let bound the name, and
\* `speak v` prints the 0 that `let v = 0` bound whatever a match did since.
C18_FirstMatchingArm ==
    /\ []C18State
    /\ [][/\ (Evaluated = 87 /\ Nearest(1, "x") # 0) =>
                /\ Subject = IntVal(1) => Printed = <<"10">> /\ err' = NoErr
                /\ Subject = IntVal(2) => Printed = <<"2", "30">> /\ err' = NoErr
                /\ Subject = OkVal(IntVal(3)) => Printed = <<"2", "3">> /\ err' = NoErr
                /\ Subject = StrVal("s") =>
                      /\ Printed = <<"2", "4">>
                      /\ err' = DoomError("match exhausted: no arm matched value s")
                /\ env' = env
          /\ (Evaluated = 91 /\ Nearest(1, "x") # 0) => Printed = <<"7">> /\ err' = NoErr
          /\ Evaluated = 88 =>
                /\ Printed = <<>> /\ err' = NoErr /\ result' = <<IntVal(9)>>
                /\ SubSeq(binds', 1, Len(binds)) = binds
                /\ \A e \in Scopes : envs'[e] = envs[e]
                /\ env' = env
          /\ (Evaluated = 89 /\ Nearest(1, "v") = 0) => err' = DoomError("undefined variable: v")
          /\ (Evaluated = 89 /\ Nearest(1, "v") # 0) => Printed = <<"0">>
          /\ Evaluated = 90 => err' = DoomError("undefined variable: w")]_vars

\* C18 witness: with x = ok(3), the first two arms failed to match (the guard of
\* the second was evaluated), the body of the third printed the content of x, and
\* w is unbound afterwards.
C18_Witness ==
    /\ program = <<84, 87, 90>>
    /\ output = <<"2", "3">>
    /\ err = DoomError("undefined variable: w")
    /\ Len(matches) = 4
    /\ matches[4].kind = "body" /\ matches[4].arm = 3 /\ Bound(matches[4].bindings) = {"w"}

(***************************************************************************)
(* Properties of guard and of the postfix ?                                *)
(***************************************************************************)
\* The signals of the given kind constructed in the body of the call c itself.
RaisedIn(c, kind) ==
    {k \in (c.from + 1)..c.to : raised[k].depth = c.depth /\ raised[k].sig.kind = kind}

\* C19: `guard c else e` in a function body.  In every state, for every completed
\* call and every guard-return raised in its body: the call returned the value
\* of e as its normal result, and nothing was raised or printed in the call after
\* the guard.  In every step of Eval: gt(), whose guard is truthy, does not evaluate
\* e and goes on (it prints 2 and yields 6); gf() evaluates e (it prints 1), skips
\* the rest of the body and yields 5; so does gn(), whose guard is in an if; gd(),
\* whose e dooms, is that doom; gm(), whose guard stands in the condition of a
\* match arm, yields the 1 of its else and prints nothing.
C19_GuardInFunction ==
    /\ [](\A i \in 1..Len(calls) : \A k \in RaisedIn(calls[i], "guard") :
            /\ calls[i].err = NoErr
            /\ calls[i].val = raised[k].sig.value
            /\ k = calls[i].to
            /\ calls[i].outlen = raised[k].outlen)
    /\ [][/\ (Evaluated = 98 /\ Nearest(1, "gt") # 0) => Printed = <<"2", "6">> /\ err' = NoErr /\ raised' = raised
          /\ (Evaluated = 97 /\ Nearest(1, "gf") # 0) => Printed = <<"1", "5">> /\ err' = NoErr
          /\ (Evaluated = 100 /\ Nearest(1, "gn") # 0) => Printed = <<"5">> /\ err' = NoErr
          /\ (Evaluated = 99 /\ Nearest(1, "gd") # 0) =>
                /\ Printed = <<>> /\ err' = DoomError("e")
                /\ \A k \in (Len(raised) + 1)..Len(raised') : raised'[k].sig.kind # "guard"
          /\ (Evaluated = 101 /\ Nearest(1, "gm") # 0) => Printed = <<"1">> /\ err' = NoErr]_vars

\* What the postfix ? makes of the value v: a value or a signal.
Propagated(v) ==
    CASE v.Kind = "ValOk"  -> [val |-> v.Inner[1], err |-> NoErr]
      [] v.Kind = "ValErr" -> [val |-> NilVal, err |-> PropagateError(v.Inner[1])]
      [] v.Kind = "ValNil" -> [val |-> NilVal, err |-> PropagateError(StrVal("nil"))]
      [] OTHER             -> [val |-> v, err |-> NoErr]

\* C20: the postfix ?.  In every state, for every name n bound in the global scope,
\* `n?` yields x when n holds ok(x), raises propagate(e) when it holds err(e),
\* raises propagate("nil") when it holds nil and yields the value of n otherwise,
\* and changes nothing else; and for every completed call and every propagate
\* signal raised in its body, the call returned err(carried value) as its normal
\* result and nothing was raised or printed in the call after the signal.  In
\* every step of Eval: pe() and pif() print nothing after `y?` and yield err(7)
\* for y = err(7) and err(nil) for y = nil, and run to their end (they print 2 and
\* yield 8) for any other y; mg(), whose `err(7)?` stands in the condition of a
\* match arm, yields err(7).
C20_Propagate ==
    /\ [](\A n \in BoundNames :
            Nearest(1, n) # 0 =>
                LET r == evalPropagateExpr(PropagateExpr(IdentExpr(n)), S) IN
                /\ r.err = Propagated(Held(1, n)).err
                /\ ~IsErr(r) => r.val = Propagated(Held(1, n)).val /\ r.s = S
                /\ IsErr(r) => [r.s EXCEPT !.raised = raised] = S)
    /\ [](\A i \in 1..Len(calls) : \A k \in RaisedIn(calls[i], "propagate") :
            /\ calls[i].err = NoErr
            /\ calls[i].val = ErrVal(raised[k].sig.value)
            /\ k = calls[i].to
            /\ calls[i].outlen = raised[k].outlen)
    /\ [][/\ (Evaluated \in {109, 110} /\ Nearest(1, "y") # 0 /\ err' = NoErr) =>
                LET y == Held(1, "y") IN
                /\ y.Kind = "ValErr" => Printed = <<"err(" \o String(y.Inner[1]) \o ")">>
                /\ y.Kind = "ValNil" => Printed = <<"err(nil)">>
                /\ (y.Kind = "ValOk" /\ Evaluated = 110) => Printed = <<String(y.Inner[1]), "2", "8">>
                /\ (y.Kind = "ValInt" /\ Evaluated = 110) => Printed = <<String(y), "2", "8">>
                /\ (y.Kind \in {"ValOk", "ValInt"} /\ Evaluated = 109) => Printed = <<"2", "8">>
          /\ (Evaluated = 24 /\ Nearest(1, "mg") # 0) => Printed = <<"err(7)">> /\ err' = NoErr]_vars

(***************************************************************************)
(* Properties of == under ambitious_mode                                   *)
(***************************************************************************)
\* The suites whose programs decree ambitious_mode or an indexing base.
IndexSuites == {10, 11}

\* Eval run on the programs of these suites.
IndexInit == Start /\ suite \in IndexSuites

IndexSpec == IndexInit /\ [][Next]_vars

\* The right operands `==` is tried with, and their values: two truthy, three falsy.
Rights == <<IntLitExpr(7), StringLitExpr("s"), IntLitExpr(0), BoolLitExpr(FALSE), NilLitExpr>>
RightVals == <<IntVal(7), StrVal("s"), IntVal(0), BoolVal(FALSE), NilVal>>

\* The indexing bases, the default one on a weekday and on a day of the weekend.
IndexingBases == {<<"zero", FALSE>>, <<"one", FALSE>>, <<"weekday", FALSE>>, <<"weekday", TRUE>>}

\* The evaluator in scope e, with ambitious_mode decreed or not, an indexing base
\* and a day of the week.
Under(e, amb, base, wk) ==
    [From(e) EXCEPT !.decrees.AmbitiousMode = amb, !.decrees.IndexingBase = base, !.weekend = wk]

\* The position index i stands for.
Position(base, wk, i) ==
    CASE base = "zero" -> i
      [] base = "one" -> i - 1
      [] OTHER -> IF wk THEN i ELSE i - 1

\* Nothing but the record of the signals raised differs between s and s0.
Untouched(s, s0) == [s EXCEPT !.raised = s0.raised] = s0

\* `n == right` for the name n, whose nearest binding from e is b.
C21Ident(e, n, k, amb) ==
    LET s0 == Under(e, amb, "weekday", FALSE)
        b == Nearest(e, n)
        r == evalBinaryExpr(BinaryExpr(IdentExpr(n), "==", Rights[k]), s0) IN
    IF amb /\ IsTruthy(RightVals[k])
    THEN IF binds[b].IsConst /\ ~binds[b].Forgiven
         THEN r.err = DoomError("cannot reassign const: " \o n) /\ Untouched(r.s, s0)
         ELSE /\ r.err = NoErr /\ r.val = RightVals[k]
              /\ r.s = [s0 EXCEPT !.binds[b].Value = RightVals[k]]
    ELSE /\ r.err = NoErr /\ r.val = BoolVal(valuesEqual(binds[b].Value, RightVals[k]))
         /\ r.s = s0

\* `n[i] == right` for the name n, which holds the array at address h.
C21Element(e, n, h, i, k, amb, base, wk) ==
    LET s0 == Under(e, amb, base, wk)
        p == Position(base, wk, i)
        r == evalBinaryExpr(BinaryExpr(IndexExpr(IdentExpr(n), IntLitExpr(i)), "==", Rights[k]), s0) IN
    IF p < 0 \/ p >= Len(heap[h].Array)
    THEN r.err = DoomError("array index out of bounds: " \o ToString(p)) /\ Untouched(r.s, s0)
    ELSE IF amb /\ IsTruthy(RightVals[k])
    THEN /\ r.err = NoErr /\ r.val = RightVals[k]
         /\ r.s = [s0 EXCEPT !.heap[h].Array[p + 1] = RightVals[k]]
    ELSE /\ r.err = NoErr /\ r.val = BoolVal(valuesEqual(heap[h].Array[p + 1], RightVals[k]))
         /\ r.s = s0

\* The keys the maps are tried with: as index expressions, as they are stored
\* and as fields.
KeyExprs == <<StringLitExpr("k"), StringLitExpr("z"), IntLitExpr(1)>>
Keys == <<"k", "z", "1">>

\* `n[key] == right` (dot = FALSE) and `n.key == right` (dot = TRUE) for the name n,
\* which holds the map at address h.
C21Key(e, n, h, j, dot, k, amb) ==
    LET s0 == Under(e, amb, "weekday", FALSE)
        lhs == IF dot THEN DotExpr(IdentExpr(n), Keys[j]) ELSE IndexExpr(IdentExpr(n), KeyExprs[j])
        r == evalBinaryExpr(BinaryExpr(lhs, "==", Rights[k]), s0)
        old == IF Keys[j] \in DOMAIN heap[h].Map.values THEN heap[h].Map.values[Keys[j]] ELSE NilVal IN
    IF amb /\ IsTruthy(RightVals[k])
    THEN /\ r.err = NoErr /\ r.val = RightVals[k]
         /\ r.s.heap[h].Map.values[Keys[j]] = RightVals[k]
         /\ \A key \in DOMAIN heap[h].Map.values \ {Keys[j]} :
               r.s.heap[h].Map.values[key] = heap[h].Map.values[key]
         /\ DOMAIN r.s.heap[h].Map.values = DOMAIN heap[h].Map.values \cup {Keys[j]}
         /\ [r.s EXCEPT !.heap[h] = heap[h]] = s0
    ELSE /\ r.err = NoErr /\ r.val = BoolVal(valuesEqual(old, RightVals[k]))
         /\ r.s = s0

\* C21 in a state: for every name bound in the current environment and every
\* right operand, with ambitious_mode decreed and not.
C21State ==
    \A e \in {env} : \A n \in DOMAIN envs[env].bindings : \A k \in DOMAIN Rights : \A amb \in BOOLEAN :
        Nearest(e, n) # 0 =>
            /\ C21Ident(e, n, k, amb)
            /\ Held(e, n).Kind = "ValArray" =>
                  \A i \in 0..2 : \A base \in IndexingBases :
                      C21Element(e, n, Held(e, n).Int, i, k, amb, base[1], base[2])
            /\ Held(e, n).Kind = "ValMap" =>
                  \A j \in DOMAIN Keys : \A dot \in BOOLEAN :
                      (dot => j # 3) => C21Key(e, n, Held(e, n).Int, j, dot, k, amb)

Decreed == {"zero", "one"}

\* `n[i]` read, for the name n, which holds an array or a string of length len
\* whose element at position p is elem[p + 1].
C22Read(n, i, base, len, elem, what) ==
    LET s0 == Under(env, FALSE, base, FALSE)
        p == IF base = "zero" THEN i ELSE i - 1
        r == evalIndexExpr(IndexExpr(IdentExpr(n), IntLitExpr(i)), s0) IN
    IF 0 <= p /\ p < len
    THEN r.err = NoErr /\ r.val = elem[p + 1] /\ r.s = s0
    ELSE r.err = DoomError(what \o " index out of bounds: " \o ToString(p)) /\ Untouched(r.s, s0)

\* `n[i] = 9`, for the name n, which holds the array at address h.
C22Write(n, i, base, h) ==
    LET s0 == Under(env, FALSE, base, FALSE)
        p == IF base = "zero" THEN i ELSE i - 1
        w == evalIndexAssignExpr(IndexAssignExpr(IdentExpr(n), IntLitExpr(i), IntLitExpr(9)), s0) IN
    IF 0 <= p /\ p < Len(heap[h].Array)
    THEN w.err = NoErr /\ w.val = IntVal(9) /\ w.s = [s0 EXCEPT !.heap[h].Array[p + 1] = IntVal(9)]
    ELSE w.err = DoomError("array index out of bounds: " \o ToString(p)) /\ Untouched(w.s, s0)

\* The characters of a string, as strings.
Chars(str) == [p \in 1..Len(str) |-> StrVal(SubSeq(str, p, p))]

\* C22 in a state: for every name bound in the current environment, every index
\* from -1 to 3 and both decreed bases.
C22State ==
    \A n \in DOMAIN envs[env].bindings : \A base \in Decreed :
        LET v == Held(env, n) IN
        /\ v.Kind = "ValArray" =>
              \A i \in -1..3 :
                  /\ C22Read(n, i, base, Len(heap[v.Int].Array), heap[v.Int].Array, "array")
                  /\ C22Write(n, i, base, v.Int)
        /\ v.Kind = "ValStr" =>
              \A i \in -1..3 : C22Read(n, i, base, Len(v.Str), Chars(v.Str), "string")
        /\ v.Kind = "ValMap" =>
              \A j \in DOMAIN Keys :
                  LET r == evalIndexExpr(IndexExpr(IdentExpr(n), KeyExprs[j]), Under(env, FALSE, base, FALSE)) IN
                  /\ r.err = NoErr
                  /\ r.s = Under(env, FALSE, base, FALSE)
                  /\ Keys[j] \notin DOMAIN heap[v.Int].Map.values => r.val = NilVal
                  /\ Keys[j] \in DOMAIN heap[v.Int].Map.values => r.val = heap[v.Int].Map.values[Keys[j]]

\* The base the program decreed last.
Base == decrees.IndexingBase

\* C22: the decreed indexing base decides the position an index stands for.  In
\* every state C22State holds: under zero_indexed (one_indexed) `n[i]` on an array
\* or a string reads position i (i - 1) and `n[i] = 9` on an array writes it, and
\* both doom with "index out of bounds", changing nothing, when the position is
\* not in [0, length); `n[key]` on a map without the key is nil, not a doom.  In
\* every step of Eval after a decree of the base, on a = [1, 2], s = "ab" and
\* m = {"k": 1}: `speak a[0]` prints the first element under zero_indexed and dooms
\* under one_indexed, `speak a[2]` dooms under zero_indexed and prints the second
\* element under one_indexed, `a[2] = 9` and `a[0] = 9` store or doom likewise and a
\* doom leaves the array as it was, `speak s[1]` prints b (a), `speak m["z"]`
\* prints nil.
C22_IndexingBase ==
    /\ []C22State
    /\ [][(Evaluated # 0 /\ Base \in Decreed) =>
            LET a == heap[Held(1, "a").Int].Array
                a2 == heap'[Held(1, "a").Int].Array IN
            /\ (Evaluated = 120 /\ Nearest(1, "a") # 0) =>
                  IF Base = "zero" THEN Printed = <<String(a[1])>> /\ err' = NoErr
                  ELSE err' = DoomError("array index out of bounds: -1") /\ Printed = <<>>
            /\ (Evaluated = 121 /\ Nearest(1, "a") # 0) =>
                  IF Base = "one" THEN Printed = <<String(a[2])>> /\ err' = NoErr
                  ELSE err' = DoomError("array index out of bounds: 2") /\ Printed = <<>>
            /\ (Evaluated = 122 /\ Nearest(1, "a") # 0) =>
                  IF Base = "one" THEN a2 = <<a[1], IntVal(9)>> /\ err' = NoErr
                  ELSE err' = DoomError("array index out of bounds: 2") /\ heap' = heap
            /\ (Evaluated = 123 /\ Nearest(1, "a") # 0) =>
                  IF Base = "zero" THEN a2 = <<IntVal(9), a[2]>> /\ err' = NoErr
                  ELSE err' = DoomError("array index out of bounds: -1") /\ heap' = heap
            /\ (Evaluated = 124 /\ Nearest(1, "s") # 0) =>
                  Printed = <<IF Base = "zero" THEN "b" ELSE "a">> /\ err' = NoErr
            /\ (Evaluated = 125 /\ Nearest(1, "m") # 0) => Printed = <<"nil">> /\ err' = NoErr]_vars

\* C22 witness: under one_indexed, `a[2] = 9` stored 9 in the second element of
\* a = [1, 2].
C22_Witness ==
    /\ program = <<118, 54, 122>>
    /\ err = NoErr
    /\ decrees.IndexingBase = "one"
    /\ heap[1].Array = <<IntVal(1), IntVal(9)>>

(***************************************************************************)
(* Properties of == on ok and err                                          *)
(***************************************************************************)
\* The suite whose programs compare ok and err values.
WrapSuites == {12}

\* Eval run on the programs of this suite.
WrapInit == Start /\ suite \in WrapSuites

WrapSpec == WrapInit /\ [][Next]_vars

\* What the comparisons of the programs print when ok and err are compared by
\* their inner values.
ByInner ==
    [i \in Suites[12] |->
        CASE i \in {126, 128, 131, 134} -> "true"
          [] OTHER -> "false"]

\* C23: `==` on two ok-wraps or two err-wraps compares the inner values, and `!=`
\* is its negation.  In every step of Eval that evaluates one of the comparisons
\* ok(1) == ok(1), ok(1) == ok(2), err("x") == err("x"), err("x") == err("y"),
\* ok(1) == err(1) and the same with !=, the step prints true when the operands
\* are wraps of the same kind with equal inner values (for !=: when they are
\* not), and false otherwise.
C23_WrapEquality ==
    [][Evaluated # 0 => Printed = <<ByInner[Evaluated]>> /\ err' = NoErr]_vars

(***************************************************************************)
(* Tokenize on two lines, the second beginning with a keyword              *)
(***************************************************************************)
\* The characters of a word.
Spell(word) == [i \in 1..Len(word) |-> SubSeq(word, i, i)]

\* The token kinds TestStartsStatement lists as statement starters and as others.
Starters == {"LET", "CONST", "FN", "MATCH", "IF", "GUARD", "RETURN", "DECREE", "SPAWN",
             "SPEAK", "DOOM", "SORRY", "CHANT"}

NonStarters == {"INT", "IDENT", "PLUS", "LPAREN", "ELSE", "TRUE", "FALSE", "NIL", "EOF", "OK", "ERR"}

\* What a first line ends in: a token of every kind that is a semicolon trigger
\* and spelled without a quote or a dot, and two that are not triggers.
LineEnds == {"1", "x", "true", "false", "nil", ")", "]", "}", "?", "ok", "err", "+", "("}

\* What a second line begins with: the spelling of every kind of Starters and
\* NonStarters (nothing at all for EOF).
LineStarts == {"let", "const", "fn", "match", "if", "guard", "return", "decree", "spawn",
               "speak", "doom", "sorry", "chant",
               "1", "x", "+", "(", "else", "true", "false", "nil", "", "ok", "err"}

\* The most line breaks between the two lines.
MaxBreaks == 2

Breaks(n) == [i \in 1..n |-> "\n"]

\* No lexer has been made yet (the variables hold the lexer of the empty input).
StarterInit ==
    /\ EvalInit
    /\ RestInit
    /\ suite = 1
    /\ ClockInit
    /\ LexerIs(New(<<>>))
    /\ tokens = <<>>
    /\ lexlog = <<>>

\* l := New(input) (decree.go:539-550), for an input of two lines.
StarterNew ==
    /\ input = <<>> /\ tokens = <<>>
    /\ \E first \in LineEnds, n \in 1..MaxBreaks, second \in LineStarts, sp \in BOOLEAN :
        LET l == New(Spell(first) \o (IF sp THEN <<" ">> ELSE <<>>) \o Breaks(n) \o Spell(second)) IN
        /\ input' = l.input /\ pos' = l.pos /\ readPos' = l.readPos /\ ch' = l.ch
        /\ line' = l.line /\ col' = l.col
        /\ lastToken' = l.lastToken /\ pendingSemicolon' = l.pendingSemicolon
    /\ UNCHANGED <<evalVars, tokens, lexlog, restVars>>

StarterNext == StarterNew \/ Tokenize

StarterSpec == StarterInit /\ [][StarterNext]_vars

\* C24: StartsStatement is true for LET, CONST, FN, MATCH, IF, GUARD, RETURN,
\* DECREE, SPAWN, SPEAK, DOOM, SORRY and CHANT and false for INT, IDENT, PLUS,
\* LPAREN, ELSE, TRUE, FALSE, NIL, EOF, OK and ERR: for every token the lexer has
\* emitted, StartsStatement of its kind is true when the kind is one of the
\* thirteen and false when it is one of the eleven; and a call of NextToken made
\* after a trigger token, with a line break crossed and one of the thirteen
\* keywords upcoming, returns a synthetic semicolon.
C24_StatementStarters ==
    /\ \A k \in 1..Len(tokens) :
        /\ tokens[k].Type \in Starters => StartsStatement(tokens[k].Type)
        /\ tokens[k].Type \in NonStarters => ~StartsStatement(tokens[k].Type)
    /\ \A k \in 1..Len(lexlog) :
        (SemicolonTrigger(lexlog[k].last) /\ lexlog[k].crossed /\ lexlog[k].up \in Starters)
            => (lexlog[k].synthetic /\ tokens[k].Type = "SEMICOLON")

(***************************************************************************)
(* Properties of sorry under no_forgiveness                                *)
(***************************************************************************)
\* The suite whose programs decree no_forgiveness.
ForgiveSuites == {13}

\* Eval run on the programs of this suite.
ForgiveInit == Start /\ suite \in ForgiveSuites

ForgiveSpec == ForgiveInit /\ [][Next]_vars

\* A name no program binds.
Unbound == "q"

\* C25 in a state where no_forgiveness is decreed: from every scope and for every
\* name, bound in that scope, bound in an ancestor only or bound nowhere,
\* sorry(name) yields err("no") and changes nothing; and where the nearest
\* binding of the name is an unforgiven const, the assignment that follows dooms
\* and changes no binding.
C25State ==
    decrees.NoForgiveness =>
        \A e \in Scopes : \A n \in BoundNames \cup {Unbound} :
            LET f == evalSorryExpr(SorryExpr(n), From(e))
                b == Nearest(e, n) IN
            /\ f = Ret(From(e), ErrVal(StrVal("no")))
            /\ (b # 0 /\ binds[b].IsConst /\ ~binds[b].Forgiven) =>
                  LET r == evalAssignExpr(AssignExpr(n, IntLitExpr(42)), f.s) IN
                  /\ r.err = DoomError("cannot reassign const: " \o n)
                  /\ r.s.binds = binds

\* C25: once no_forgiveness has been decreed, every sorry(name) yields err("no")
\* and flips no binding's forgiven flag, whether or not name is bound in the
\* current scope, so a const that was unforgiven at the time of the decree can
\* never be assigned afterwards.  C25State holds in every state, and in every
\* step of Eval taken with the decree in force: the decree stays in force, no
\* binding's forgiven flag changes, a const binding that is unforgiven keeps its
\* value, `sorry x` yields err("no"), and `speak sorry(x)` and `speak sorry(q)`
\* print err(no).
C25_NoForgiveness ==
    /\ []C25State
    /\ [][decrees.NoForgiveness =>
              /\ decrees'.NoForgiveness
              /\ \A b \in 1..Len(binds) :
                   /\ binds'[b].Forgiven = binds[b].Forgiven
                   /\ (binds[b].IsConst /\ ~binds[b].Forgiven) => binds'[b] = binds[b]
              /\ Evaluated = 4 => (result' = <<ErrVal(StrVal("no"))>> /\ err' = NoErr)
              /\ Evaluated \in {136, 137} => (Printed = <<"err(no)">> /\ err' = NoErr)]_vars

\* C25 witness: x was declared const, no_forgiveness was decreed and then
\* sorry(x) was evaluated in the scope that binds x: it yielded err("no") and x
\* is still an unforgiven const.
C25_Witness ==
    /\ program = <<1, 135, 4>>
    /\ decrees.NoForgiveness
    /\ result = <<ErrVal(StrVal("no"))>>
    /\ binds[Nearest(1, "x")].IsConst
    /\ ~binds[Nearest(1, "x")].Forgiven

(***************************************************************************)
(* Properties of spawn and await_all                                       *)
(***************************************************************************)
\* The suite whose programs spawn.
SpawnSuites == {14}

\* Eval run on the programs of this suite.
SpawnInit == Start /\ suite \in SpawnSuites

SpawnSpec == SpawnInit /\ [][Next]_vars

\* The blocks spawned by the programs.
SpawnBodies == {Items[i].Expression.Body : i \in {35, 139, 140}} \cup {Items[142].Expression.Value.Body}

\* C26 in a state: spawn of a block does to the evaluator exactly what the block
\* itself does, raises what the block raises, and yields nil when the block
\* yields a value; await_all yields nil and leaves the evaluator as it is.
C26State ==
    /\ \A body \in SpawnBodies :
        LET inline == evalBlockExpr(body, S)
            spawned == evalExpr(SpawnExpr(body), S) IN
        /\ spawned.s = inline.s
        /\ spawned.err = inline.err
        /\ inline.err = NoErr => spawned.val = NilVal
    /\ evalExpr(AwaitAllExpr, S) = Ret(S, NilVal)

ScopeSuites == {2, 3, 7, 8}

\* Eval run on the programs of these suites.
ScopeInit == Start /\ suite \in ScopeSuites

ScopeSpec == ScopeInit /\ [][Next]_vars

\* The guarded patterns of the programs' matches, and the subjects they are tried on.
GuardedPatterns == {Items[33].Expression.Arms[1].Pattern, Items[87].Expression.Arms[2].Pattern,
                    Items[91].Expression.Arms[2].Pattern,
                    Bodies[7].FinalExpr[1].Arms[1].Pattern, Bodies[24].Stmts[1].Expression.Arms[1].Pattern}

Subjects == {IntVal(1), IntVal(2), OkVal(IntVal(3))}

\* The functions bound in some scope.
Functions == {binds[b].Value.Fn[1] : b \in {c \in 1..Len(binds) : binds[c].Value.Kind = "ValFn"}}

\* C27 in a state: with any scope e as the current environment, the evaluation
\* of every function body as a block, of every statement of the programs, of a
\* call of every function bound so far and of every guarded pattern leaves e the
\* current environment, however it ends; and the blocks
\* { if true { return 1 } 2 }, { guard false else 5; 6 }, { err(7)?; 8 } and
\* { speak 0; doom("boom") } end with the return, guard-return, propagate and doom
\* signals.
C27State ==
    /\ \A e \in Scopes :
        /\ \A k \in DOMAIN Bodies : evalBlockExpr(Bodies[k], From(e)).s.env = e
        /\ \A i \in Suites[suite] : evalItem(Items[i], From(e)).s.env = e
        /\ \A fn \in Functions : callFunction(fn, <<>>, From(e)).s.env = e
        /\ \A pat \in GuardedPatterns : \A subject \in Subjects :
            matchPattern(pat, subject, From(e)).s.env = e
    /\ evalBlockExpr(Bodies[3], S).err.kind = "return"
    /\ evalBlockExpr(Bodies[4], S).err.kind = "guard"
    /\ evalBlockExpr(Bodies[5], S).err.kind = "propagate"
    /\ evalBlockExpr(Bodies[6], S).err.kind = "doom"

\* C27: after the evaluation of a block, a function call, a match arm or a match
\* guard finishes, by value or by any signal, the current environment is the one
\* that was current before it started, and after Eval returns the current
\* environment is the top-level environment.  C27State holds in every state, the
\* current environment is the top-level one in every state, and every match arm
\* body on record was left in the environment its match was entered in.
C27_EnvironmentRestored ==
    /\ C27State
    /\ env = 1
    /\ envs[1].parent = 0
    /\ \A k \in 1..Len(matches) : matches[k].after = matches[k].env

\* C27 witness: Eval returned with a doom raised by the body of a match arm inside
\* a fresh scope, and the current environment is the top-level one.
C27_Witness ==
    /\ program = <<39>>
    /\ status = "returned"
    /\ err = DoomError("arm")
    /\ Len(envs) > 1
    /\ env = 1

(***************************************************************************)
(* Parser.nextToken and Parser.peekAhead over the lexer (decree.go:1455-    *)
(* 1480), with the buffer of tokens read ahead.  A call returns the Parser's *)
(* token fields, the lexer as the call leaves it, and the tokens it took    *)
(* from the lexer.                                                         *)
(***************************************************************************)
\* A variant of Parser_nextToken: the next token always comes from the lexer.
Parser_nextTokenUnbuffered(p, l) ==
    [p |-> [p EXCEPT !.curToken = p.peekToken, !.peekToken = NextToken(l).tok],
     l |-> NextToken(l).l, read |-> <<NextToken(l).tok>>]

Parser_nextToken(p, l) ==
    IF Len(p.buffered) > 0
    THEN [p |-> [curToken |-> p.peekToken, peekToken |-> p.buffered[1], buffered |-> Tail(p.buffered)],
          l |-> l, read |-> <<>>]
    ELSE [p |-> [p EXCEPT !.curToken = p.peekToken, !.peekToken = NextToken(l).tok],
          l |-> NextToken(l).l, read |-> <<NextToken(l).tok>>]

\* for len(p.buffered) <= idx { p.buffered = append(p.buffered, p.l.NextToken()) }
RECURSIVE fillBuffered(_, _, _, _)
fillBuffered(p, l, idx, read) ==
    IF Len(p.buffered) <= idx
    THEN fillBuffered([p EXCEPT !.buffered = Append(@, NextToken(l).tok)], NextToken(l).l, idx,
                      Append(read, NextToken(l).tok))
    ELSE [p |-> p, l |-> l, read |-> read, tok |-> p.buffered[idx + 1]]

Parser_peekAhead(p, l, n) ==
    IF n = 0 THEN [p |-> p, l |-> l, read |-> <<>>, tok |-> p.curToken]
    ELSE IF n = 1 THEN [p |-> p, l |-> l, read |-> <<>>, tok |-> p.peekToken]
    ELSE fillBuffered(p, l, n - 2, <<>>)

\* The pieces of source text the inputs of a Parser with its buffer are made of.
BufChunks == {<<"x">>, <<"{">>, <<":">>, <<"\n">>}

\* The most pieces in such an input.
MaxBufChunks == 3

\* The farthest peekAhead looks.
MaxAhead == 3

\* The most calls of nextToken after New.
MaxPlaced == 4

BufInputs == {Concat(cs) : cs \in UNION {[1..n -> BufChunks] : n \in 0..MaxBufChunks}}

\* A lexer has been made for the input and no Parser yet.
BufInit ==
    /\ EvalInit
    /\ RestInit
    /\ suite = 1
    /\ ClockInit
    /\ \E in \in BufInputs : LexerIs(New(in))
    /\ tokens = <<>>
    /\ lexlog = <<>>

\* p := New(l) (decree.go:1438-1444): &Parser{l: l} and two calls of nextToken.
BufNew ==
    /\ tokens = <<>>
    /\ LET first == Parser_nextToken(parser, L)
           second == Parser_nextToken(first.p, first.l) IN
        /\ parser' = second.p
        /\ LexerBecomes(second.l)
        /\ tokens' = first.read \o second.read
        /\ placed' = <<second.p.curToken>>
    /\ UNCHANGED <<evalVars, lexlog, commentVars, mapVars, parseVars, peeked>>

\* p.nextToken()
BufNextToken ==
    /\ tokens # <<>>
    /\ Len(placed) <= MaxPlaced
    /\ LET r == Parser_nextToken(parser, L) IN
        /\ parser' = r.p
        /\ LexerBecomes(r.l)
        /\ tokens' = tokens \o r.read
        /\ placed' = Append(placed, r.p.curToken)
    /\ UNCHANGED <<evalVars, lexlog, commentVars, mapVars, parseVars, peeked>>

\* p.peekAhead(n)
BufPeekAhead ==
    /\ tokens # <<>>
    /\ \E n \in 0..MaxAhead :
        LET r == Parser_peekAhead(parser, L, n) IN
        /\ parser' = r.p
        /\ LexerBecomes(r.l)
        /\ tokens' = tokens \o r.read
        /\ peeked' = [n |-> n, tok |-> r.tok]
    /\ UNCHANGED <<evalVars, lexlog, commentVars, mapVars, parseVars, placed>>

BufNext == BufNew \/ BufNextToken \/ BufPeekAhead

BufSpec == BufInit /\ [][BufNext]_vars

\* The first k tokens a lexer returns, one call of NextToken after the other.
RECURSIVE Stream(_, _)
Stream(l, k) == IF k = 0 THEN <<>> ELSE <<NextToken(l).tok>> \o Stream(NextToken(l).l, k - 1)

\* C28 in a state, once the Parser is made: the tokens curToken has held, followed
\* by peekToken and by the buffer, are the tokens the lexer returns for the
\* input, in order and none missing or twice, and curToken is the last of those
\* it has held.
C28State ==
    tokens # <<>> =>
        /\ placed \o <<parser.peekToken>> \o parser.buffered = Stream(New(input), Len(placed) + 1 + Len(parser.buffered))
        /\ tokens = placed \o <<parser.peekToken>> \o parser.buffered
        /\ parser.curToken = placed[Len(placed)]

\* C28: the parser's lookahead buffer is transparent.  A call of peekAhead(n)
\* changes neither curToken nor peekToken and returns the token n places after
\* curToken in the lexer's sequence; a call of nextToken puts the old peekToken in
\* curToken; and under every interleaving of the two the tokens placed in
\* curToken are the lexer's sequence (C28State in every state).
C28_BufferTransparent ==
    /\ []C28State
    /\ [][tokens # <<>> =>
              /\ peeked' # peeked =>
                   /\ parser'.curToken = parser.curToken
                   /\ parser'.peekToken = parser.peekToken
                   /\ placed' = placed
                   /\ peeked'.tok = Stream(New(input), Len(placed) + peeked'.n)[Len(placed) + peeked'.n]
              /\ placed' # placed =>
                   /\ parser'.curToken = parser.peekToken
                   /\ placed' = Append(placed, parser.peekToken)]_vars

\* C28 witness: on the input x{: the call peekAhead(3) buffered two tokens and
\* returned the EOF token, nextToken then took both out of the buffer, and the
\* tokens curToken has held are x, { and : with EOF in peekToken.
C28_Witness ==
    /\ input = <<"x", "{", ":">>
    /\ peeked.n = 3
    /\ peeked.tok.Type = "EOF"
    /\ parser.buffered = <<>>
    /\ [k \in 1..Len(placed) |-> placed[k].Type] = <<"IDENT", "LBRACE", "COLON">>
    /\ parser.peekToken.Type = "EOF"
    /\ Len(tokens) = 4

(***************************************************************************)
(* Properties of calls of the built-in names                               *)
(***************************************************************************)
\* The suite whose programs bind and call the names of the built-ins.
BuiltinSuites == {15}

\* Eval run on the programs of this suite.
BuiltinInit == Start /\ suite \in BuiltinSuites

BuiltinSpec == BuiltinInit /\ [][Next]_vars

BuiltinNames == {"len", "malloc", "free", "read", "write", "read_file", "parse_toml"}

\* The argument lists the built-ins are called with: none, one that announces its
\* evaluation, a number, and three of which the second dooms.
BuiltinArgs == << <<>>, <<Told(1, StringLitExpr("ab"))>>, <<IntLitExpr(1)>>,
                 <<Told(1, IntLitExpr(1)), DoomExpr(StringLitExpr("arg")), Told(2, IntLitExpr(2))>> >>

\* The evaluator with nothing bound.
Bare(s) == [s EXCEPT !.envs = <<[bindings |-> NoBindings, parent |-> 0]>>, !.binds = <<>>, !.env = 1]

\* C29 in a state: for every built-in name, whatever it is bound to or unbound,
\* and every argument list, the call evaluates the arguments first and returns
\* their error if one fails; otherwise it returns what the built-in returns for
\* the argument values, which is what it returns when nothing at all is bound,
\* and leaves the evaluator as the arguments left it (but for the record of the
\* doom the built-in raises).
C29State ==
    \A name \in BuiltinNames : \A k \in DOMAIN BuiltinArgs :
        LET r == evalExpr(Call(name, BuiltinArgs[k]), S)
            a == evalArgs(BuiltinArgs[k], 1, S, <<>>) IN
        IF IsErr(a) THEN r = Fail(a.s, a.err)
        ELSE /\ callBuiltin(name, a.vals, a.s).isBuiltin
             /\ r = callBuiltin(name, a.vals, a.s).r
             /\ Untouched(r.s, a.s)
             /\ r.val = callBuiltin(name, a.vals, Bare(a.s)).r.val
             /\ r.err = callBuiltin(name, a.vals, Bare(a.s)).r.err

\* C29: a call whose callee is the bare identifier len, malloc, free, read, write,
\* read_file or parse_toml is always handled by the built-in, without consulting
\* the environment, also when the name is unbound or bound to something else,
\* and the arguments are evaluated before the built-in runs.  C29State holds in
\* every state, and in every step of Eval the calls print what the built-ins
\* return after what their arguments print, never what a user function of the
\* same name prints, and a call with a dooming argument dooms with it.
C29_BuiltinsFirst ==
    /\ []C29State
    /\ [][/\ Evaluated \in {150, 151, 152, 153, 154, 156} =>
               /\ err' = NoErr
               /\ Printed = CASE Evaluated = 150 -> <<"1", "2">>
                               [] Evaluated = 151 -> <<"1", "ptr(0)">>
                               [] Evaluated = 153 -> <<"">>
                               [] Evaluated = 156 -> <<"err(not implemented)">>
                               [] OTHER -> <<"ok(nil)">>
          /\ Evaluated = 155 =>
               (err' = NoErr /\ Len(Printed) = 1 /\ HasPrefix(Printed[1], "err(") /\ envs' = envs)
          /\ Evaluated = 157 => (err' = DoomError("arg") /\ Printed = <<>>)]_vars

\* C29 witness: len was bound to 5 and then declared as a user function, and
\* `speak len({speak 1; "ab"})` printed the argument's 1 and the built-in's 2.
C29_Witness ==
    /\ program = <<146, 147, 150>>
    /\ output = <<"1", "2">>
    /\ binds[Nearest(1, "len")].Value.Kind = "ValFn"

(***************************************************************************)
(* Properties of declaring a name again                                    *)
(***************************************************************************)
\* The suite whose programs declare x more than once.
RedeclareSuites == {16}

\* Eval run on the programs of this suite.
RedeclareInit == Start /\ suite \in RedeclareSuites

RedeclareSpec == RedeclareInit /\ [][Next]_vars

\* C30 in a state: for every name bound in the current scope, whatever the flags
\* of its binding, `let name = 2` makes a new binding that is not const, so that
\* `name = 42` succeeds at once; and `const name = 3` makes a new binding that is
\* const and unforgiven, so that `name = 42` dooms, until sorry(name).
C30State ==
    \A n \in DOMAIN envs[env].bindings :
        LET l == evalLetStmt(LetStmt(n, IntLitExpr(2)), S)
            c == evalConstStmt(ConstStmt(n, IntLitExpr(3)), S)
            lb == l.s.envs[env].bindings[n]
            cb == c.s.envs[env].bindings[n] IN
        /\ lb = Len(binds) + 1
        /\ l.s.binds = Append(binds, [Value |-> IntVal(2), IsConst |-> FALSE, Forgiven |-> FALSE])
        /\ evalAssignExpr(AssignExpr(n, IntLitExpr(42)), l.s).err = NoErr
        /\ evalAssignExpr(AssignExpr(n, IntLitExpr(42)), l.s).s.binds[lb].Value = IntVal(42)
        /\ cb = Len(binds) + 1
        /\ c.s.binds = Append(binds, [Value |-> IntVal(3), IsConst |-> TRUE, Forgiven |-> FALSE])
        /\ evalAssignExpr(AssignExpr(n, IntLitExpr(42)), c.s).err = DoomError("cannot reassign const: " \o n)
        /\ evalAssignExpr(AssignExpr(n, IntLitExpr(42)), c.s).s.binds = c.s.binds
        /\ evalAssignExpr(AssignExpr(n, IntLitExpr(42)), evalSorryExpr(SorryExpr(n), c.s).s).err = NoErr

\* C30: declaring a name again with let or const in the same scope replaces its
\* binding entirely, the const and forgiven flags included.  C30State holds in
\* every state, and in every step of Eval: `const x = 1`, `let x = 2` and
\* `const x = 3` bind x to a new binding with the statement's value, const as
\* the statement says and unforgiven, and leave every other binding as it was;
\* and `x = 3` succeeds right after `let x = 2` and dooms right after
\* `const x = 1` and `const x = 3`, whatever was declared or forgiven before.
C30_RedeclareReplaces ==
    /\ []C30State
    /\ [][/\ Evaluated \in {1, 2, 158} =>
               /\ Nearest(1, "x")' = Len(binds) + 1
               /\ binds' = Append(binds, [Value |-> IntVal(CASE Evaluated = 1 -> 1 [] Evaluated = 2 -> 2 [] OTHER -> 3),
                                           IsConst |-> Evaluated # 2, Forgiven |-> FALSE])
          /\ (Evaluated = 3 /\ program # <<>> /\ Last(program) = 2) =>
               (err' = NoErr /\ binds'[Nearest(1, "x")].Value = IntVal(3))
          /\ (Evaluated = 3 /\ program # <<>> /\ Last(program) \in {1, 158}) =>
               (err' = DoomError("cannot reassign const: x") /\ binds' = binds)]_vars

\* C30 witness: x was declared const, forgiven by sorry, and declared const
\* again: the first binding is forgiven and the binding x now names is an
\* unforgiven const holding 3.
C30_Witness ==
    /\ program = <<1, 4, 158>>
    /\ binds[1].Forgiven
    /\ Nearest(1, "x") = 2
    /\ binds[2] = [Value |-> IntVal(3), IsConst |-> TRUE, Forgiven |-> FALSE]

====
